---- MODULE Spec2Model ----
(***************************************************************************)
(* colog: the per-container log pipeline (container.ContainerContext and   *)
(* docker.DockerService.StreamLogs) and the ContainerContextManager.       *)
(*                                                                         *)
(* One ContainerContext is modelled at the grain of its goroutines: the    *)
(* stream reader started by StreamLogs, the buffer processor processLogs,  *)
(* and the callers of Initialize, Cleanup and GetLogBuffer.  Slices are    *)
(* modelled as Go has them: a header (array, offset, length, capacity)     *)
(* over a backing array in a heap, so that aliasing is observable.         *)
(***************************************************************************)
EXTENDS Integers, Sequences, FiniteSets, TLC

(* ---------------------------------------------------------------------- *)
(* Program constants                                                      *)
(* ---------------------------------------------------------------------- *)

\* make([]docker.LogEntry, 0, 50) and the eviction test len(cc.LogBuffer) > 50
BufCap == 50

\* make(chan docker.LogEntry, 100)
ChanCap == 100

\* len(GetContainerColors())
NumColors == 15

(* ---------------------------------------------------------------------- *)
(* Bounds of the model                                                    *)
(* ---------------------------------------------------------------------- *)

\* non-empty lines the container's stream produces in a run from construction
MaxLines == 101

\* non-empty lines the stream still produces in a run that starts mid-stream
SnapLines == 2

\* contexts the manager creates in a run (the cap of colorIndex)
MaxContexts == 3

\* containers in one snapshot passed to InitializeContexts
MaxContainers == 3

(* ---------------------------------------------------------------------- *)
(* State                                                                  *)
(* ---------------------------------------------------------------------- *)

VARIABLES
    \* --- one ContainerContext ---
    heap,           \* backing arrays of the slices: array id -> sequence of entries
    LogBuffer,      \* cc.LogBuffer: slice header [arr, off, len, cap]
    LogChannel,     \* cc.LogChannel: the entries buffered in the channel, oldest first
    chClosed,       \* the channel has been closed
    cancelled,      \* cc.ctx is done (cc.cancel was called)
    streamStarted,  \* cc.streamStarted
    readerPc,       \* the goroutine of startLogStreaming / StreamLogs
    line,           \* the line scanner.Text() holds, [kind, n]
    procPc,         \* the goroutine processLogs
    entry,          \* the entry processLogs has received and is handling
    cleanupPc,      \* the caller inside ContainerContext.Cleanup
    cleanups,       \* completed calls of Cleanup
    closes,         \* close(LogChannel) statements executed, with their closer
    panicked,       \* the runtime panic that ended the process, or "none"
    budget,         \* non-empty lines the stream can still produce
    ended,          \* the stream has reached its end
    lineNo,         \* non-empty lines the stream has produced so far
    sink,           \* lines submitted to the view through AppendLog, in order
    sent,           \* history: entries sent on the channel, in order
    appended,       \* history: entries appended to LogBuffer, in order
    snaps,          \* the slice each caller of GetLogBuffer holds, if any
    snapGhost,      \* history: what each held slice held when GetLogBuffer returned it
    \* --- the ContainerContextManager ---
    ctxs,           \* every ContainerContext created, by creation number
    contexts,       \* ccm.contexts: container ID -> creation number
    orderedIDs,     \* ccm.orderedIDs
    colorIndex,     \* ccm.colorIndex
    mlast,          \* history: the last manager operation and its result
    \* --- a call of parseLogEntry ---
    input,          \* the line given to parseLogEntry, by its parts
    parsed,         \* the entry the call returned, once it has
    \* --- a call of the SDK's GetContainerLogs ---
    sdk,
    \* --- the application ---
    app,
    \* --- the view of the context and the calls of Initialize ---
    LogView,        \* cc.LogView: the TextView it points to, by creation number; 0 is nil
    started,        \* history: the goroutines startLogStreaming has started, by function
    inits,          \* history: the calls of Initialize and what the last one returned
    simple,         \* the goroutine streamContainerLogsSimple of the context
    mu,             \* cc.mu: whether the writer holds it, and the readers that do
    ui,             \* the event loop's side of the view: what it has drawn and set
    ccmLock,        \* ccm.mu: the call that holds it, and what that call has yet to do
    selecting,      \* a call of ccm.SetSelected between its lookup and its write
    pipes,          \* two contexts side by side: their pipelines, their locks, a caller
    loop            \* the event loop of the TUI: its keys, its queue of updates, who waits

ccVars == <<heap, LogBuffer, LogChannel, chClosed, cancelled, streamStarted,
            readerPc, line, procPc, entry, cleanupPc, cleanups, closes, panicked,
            budget, ended, lineNo, sink, sent, appended, snaps, snapGhost>>

\* what a panic of the manager or the application leaves alone in a context
ccButPanicked ==
    <<heap, LogBuffer, LogChannel, chClosed, cancelled, streamStarted,
      readerPc, line, procPc, entry, cleanupPc, cleanups, closes,
      budget, ended, lineNo, sink, sent, appended, snaps, snapGhost>>

ccmVars == <<ctxs, contexts, orderedIDs, colorIndex, mlast>>

\* the view of the followed context and the histories of its tasks
auxVars == <<LogView, started, inits, simple, mu, ui, ccmLock, selecting, pipes,
            loop>>

\* what the pipeline of a context and the manager leave alone
restVars == <<input, parsed, sdk, app, auxVars>>

vars == <<ccVars, ccmVars, restVars>>

(* ---------------------------------------------------------------------- *)
(* Go slices                                                              *)
(* ---------------------------------------------------------------------- *)

\* the zero value LogEntry{} (its Message is "")
ZeroEntry == 0

\* the callers of GetLogBuffer that run beside the pipeline: the export
\* goroutine and the search of the event loop; each holds one slice at a time
Callers == {"exportLogsForLLM", "performSearch"}

\* no slice held
NoSlice == [arr |-> 0, off |-> 0, len |-> 0, cap |-> 0]

\* no caller holds a slice
NoSnaps == [c \in Callers |-> NoSlice]

\* the internal array, one per caller, and one for append to grow into
ArrIds == 1..(Cardinality(Callers) + 2)

Zeros(n) == [i \in 1..n |-> ZeroEntry]

\* the elements a slice header denotes
SliceElems(h, s) == SubSeq(h[s.arr], s.off + 1, s.off + s.len)

\* arrays some live slice refers to; the others are garbage
LiveArrays(buf, held) == ({buf.arr} \cup {held[c].arr : c \in Callers}) \ {0}

Collect(h, buf, held) ==
    [a \in ArrIds |-> IF a \in LiveArrays(buf, held) THEN h[a] ELSE << >>]

FreeArr(h, buf, held) ==
    LET live == LiveArrays(buf, held)
    IN  CHOOSE a \in ArrIds : a \notin live /\
            \A b \in ArrIds : b \notin live => a <= b

\* unsafe.Sizeof(docker.LogEntry{}) on a 64-bit build: three strings of 16
\* bytes and a time.Time of 24
EntryBytes == 16 + 24 + 16 + 16

\* the size classes of the allocator up to 32 KiB (runtime/sizeclasses.go), 67
\* of them, for the toolchain of the repository's image (golang:1.21); from
\* Go 1.22 on the allocation header changes the capacity some appends get,
\* not the one of the append to the full buffer of 50
SizeClasses ==
    {8, 16, 24, 32, 48, 64, 80, 96, 112, 128, 144, 160, 176, 192, 208, 224, 240,
     256, 288, 320, 352, 384, 416, 448, 480, 512, 576, 640, 704, 768, 896, 1024,
     1152, 1280, 1408, 1536, 1792, 2048, 2304, 2688, 3072, 3200, 3456, 4096,
     4864, 5376, 6144, 6528, 6784, 6912, 8192, 9472, 9728, 10240, 10880,
     12288, 13568, 14336, 16384, 18432, 19072, 20480, 21760, 24576, 27264,
     28672, 32768}

\* runtime.growslice for an append of one element to a full slice: twice the
\* old capacity below 256 elements, a quarter more (and 192) from there on,
\* then as many elements as fit the size class the allocator rounds the
\* bytes up to (whole pages of 8 KiB above the largest class)
GrowCap(oldCap) ==
    LET newcap == IF oldCap = 0 THEN 1
                  ELSE IF oldCap < 256 THEN 2 * oldCap
                  ELSE oldCap + (oldCap + 768) \div 4
        bytes  == newcap * EntryBytes
        class  == IF bytes <= 32768
                  THEN CHOOSE c \in SizeClasses :
                           c >= bytes /\ \A d \in SizeClasses : d >= bytes => c <= d
                  ELSE 8192 * ((bytes + 8191) \div 8192)
    IN  class \div EntryBytes

\* append(s, e): in place while the capacity lasts, else into a new, larger array
AppendSlice(h, s, e, held) ==
    IF s.len < s.cap
    THEN [heap  |-> [h EXCEPT ![s.arr][s.off + s.len + 1] = e],
          slice |-> [s EXCEPT !.len = @ + 1]]
    ELSE LET a  == FreeArr(h, s, held)
             nc == GrowCap(s.cap)
         IN  [heap  |-> [h EXCEPT ![a] = SliceElems(h, s) \o <<e>> \o Zeros(nc - s.len - 1)],
              slice |-> [arr |-> a, off |-> 0, len |-> s.len + 1, cap |-> nc]]

\* s[1:]
SliceFrom1(s) == [s EXCEPT !.off = @ + 1, !.len = @ - 1, !.cap = @ - 1]

(* ---------------------------------------------------------------------- *)
(* Strings                                                                *)
(* ---------------------------------------------------------------------- *)

\* A Go string is the sequence of its bytes.

\* the white space of unicode.IsSpace, each rune by its bytes in UTF-8:
\* \t \n \v \f \r and the space, U+0085, U+00A0, U+1680, U+2000 to U+200A,
\* U+2028, U+2029, U+202F, U+205F and U+3000
SpaceRunes ==
    {<<b>> : b \in {9, 10, 11, 12, 13, 32}}
    \cup {<<194, 133>>, <<194, 160>>, <<225, 154, 128>>}
    \cup {<<226, 128, b>> : b \in 128..138}
    \cup {<<226, 128, 168>>, <<226, 128, 169>>, <<226, 128, 175>>,
          <<226, 129, 159>>, <<227, 128, 128>>}

\* unicode.IsSpace of the rune whose bytes are r
IsSpace(r) == r \in SpaceRunes

\* strings.TrimLeftFunc(s, unicode.IsSpace): the runes, of one to three bytes,
\* are decoded from the left, and the first that is no white space ends the
\* trimming
RECURSIVE TrimLeft(_)
TrimLeft(s) ==
    LET ns == {n \in 1..3 : n <= Len(s) /\ IsSpace(SubSeq(s, 1, n))}
    IN  IF ns = {} THEN s
        ELSE TrimLeft(SubSeq(s, 1 + (CHOOSE n \in ns : TRUE), Len(s)))

\* strings.TrimRightFunc(s, unicode.IsSpace): the same from the right
RECURSIVE TrimRight(_)
TrimRight(s) ==
    LET ns == {n \in 1..3 : n <= Len(s) /\ IsSpace(SubSeq(s, Len(s) - n + 1, Len(s)))}
    IN  IF ns = {} THEN s
        ELSE TrimRight(SubSeq(s, 1, Len(s) - (CHOOSE n \in ns : TRUE)))

\* strings.TrimSpace
TrimSpace(s) == TrimRight(TrimLeft(s))

\* strings.IndexByte, counted from 1; 0 when the byte is not there
IndexByte(s, b) ==
    IF \E i \in 1..Len(s) : s[i] = b
    THEN CHOOSE i \in 1..Len(s) : s[i] = b /\ \A j \in 1..(i - 1) : s[j] # b
    ELSE 0

\* strings.LastIndexByte, counted from 1
LastIndexByte(s, b) ==
    IF \E i \in 1..Len(s) : s[i] = b
    THEN CHOOSE i \in 1..Len(s) : s[i] = b /\ \A j \in (i + 1)..Len(s) : s[j] # b
    ELSE 0

\* a split in two at the last space instead of the first
SplitAtLastSpace(s) ==
    LET i == LastIndexByte(s, 32)
    IN  IF i = 0 THEN <<s>> ELSE <<SubSeq(s, 1, i - 1), SubSeq(s, i + 1, Len(s))>>

\* strings.SplitN(s, " ", 2)
SplitN2(s) ==
    LET i == IndexByte(s, 32)
    IN  IF i = 0 THEN <<s>> ELSE <<SubSeq(s, 1, i - 1), SubSeq(s, i + 1, Len(s))>>

(* ---------------------------------------------------------------------- *)
(* time.Parse on the layouts parseLogEntry uses                           *)
(* ---------------------------------------------------------------------- *)

\* the zero time.Time
ZeroTime == [kind |-> "zero"]

\* time.Now() at the tick now of the clock
NowTime(now) == [kind |-> "now", at |-> now]

\* the time a timestamp denotes: its fields, the offset of its zone in minutes
Date(y, mo, d, h, mi, s, ns, off) ==
    [kind |-> "date", year |-> y, month |-> mo, day |-> d,
     hour |-> h, min |-> mi, sec |-> s, nsec |-> ns, offset |-> off]

IsDigit(b) == b \in 48..57

DigitsAt(s, i, n) == i + n - 1 <= Len(s) /\ \A k \in i..(i + n - 1) : IsDigit(s[k])

RECURSIVE NumAt(_, _, _)
NumAt(s, i, n) == IF n = 0 THEN 0 ELSE 10 * NumAt(s, i, n - 1) + (s[i + n - 1] - 48)

RECURSIVE DigitRun(_, _)
DigitRun(s, i) == IF i <= Len(s) /\ IsDigit(s[i]) THEN 1 + DigitRun(s, i + 1) ELSE 0

RECURSIVE Pow10(_)
Pow10(n) == IF n = 0 THEN 1 ELSE 10 * Pow10(n - 1)

IsLeap(y) == (y % 4 = 0 /\ y % 100 # 0) \/ y % 400 = 0

DaysIn(y, m) ==
    IF m = 2 THEN (IF IsLeap(y) THEN 29 ELSE 28)
    ELSE IF m \in {4, 6, 9, 11} THEN 30 ELSE 31

\* the hour is read by getnum(value, false): two digits when the second byte
\* is a digit, else one
HourLen(s) == IF DigitsAt(s, 12, 2) THEN 2 ELSE 1

\* where the value goes on after the seconds
AfterClock(s) == 18 + HourLen(s)

\* "2006-01-02T15:04:05", the part the four layouts share: a year of four
\* digits, month, day, minute and second of two, an hour of one or two, and
\* the range checks of time.Parse on month, day, hour, minute and second
ClockOK(s) ==
    LET h == HourLen(s)
    IN  /\ Len(s) >= 17 + h
        /\ DigitsAt(s, 1, 4) /\ s[5] = 45
        /\ DigitsAt(s, 6, 2) /\ s[8] = 45
        /\ DigitsAt(s, 9, 2) /\ s[11] = 84
        /\ DigitsAt(s, 12, h) /\ s[12 + h] = 58
        /\ DigitsAt(s, 13 + h, 2) /\ s[15 + h] = 58
        /\ DigitsAt(s, 16 + h, 2)
        /\ NumAt(s, 6, 2) \in 1..12
        /\ NumAt(s, 9, 2) \in 1..DaysIn(NumAt(s, 1, 4), NumAt(s, 6, 2))
        /\ NumAt(s, 12, h) < 24
        /\ NumAt(s, 13 + h, 2) < 60
        /\ NumAt(s, 16 + h, 2) < 60

\* the time package's commaOrPeriod: what can stand before a fraction
commaOrPeriod(b) == b \in {44, 46}

\* the digits of the fractional second that follows the seconds, if any: a
\* comma or a period and a digit start one, under a layout with .999999999
\* and under a layout without a fraction alike
FracLen(s) ==
    LET f == AfterClock(s)
    IN  IF Len(s) >= f + 1 /\ commaOrPeriod(s[f]) /\ IsDigit(s[f + 1])
        THEN DigitRun(s, f + 1)
        ELSE 0

\* the nanoseconds of a fraction of n digits: digits after the ninth are dropped
Nanos(s, n) ==
    IF n = 0 THEN 0
    ELSE LET k == IF n > 9 THEN 9 ELSE n
         IN  NumAt(s, AfterClock(s) + 1, k) * Pow10(9 - k)

\* where the zone starts after a fraction of n digits
ZoneAt(s, n) == IF n = 0 THEN AfterClock(s) ELSE AfterClock(s) + 1 + n

\* "Z07:00" at position z: the letter Z, or a signed hh:mm of two digits
\* each, and nothing after.  The time.Parse of the repository's toolchain
\* (Go 1.21) reads the hours and the minutes of the offset with no test of
\* their range: +25:00 and -02:75 are offsets like any other (from Go 1.23
\* on, hours over 24 and minutes over 60 are refused)
ZoneOK(s, z) ==
    \/ Len(s) = z /\ s[z] = 90
    \/ /\ Len(s) = z + 5
       /\ s[z] \in {43, 45}
       /\ DigitsAt(s, z + 1, 2) /\ s[z + 3] = 58 /\ DigitsAt(s, z + 4, 2)

ZoneOffset(s, z) ==
    IF s[z] = 90 THEN 0
    ELSE (IF s[z] = 45 THEN -1 ELSE 1) * (60 * NumAt(s, z + 1, 2) + NumAt(s, z + 4, 2))

\* timestampFormats, in the order parseLogEntry tries them
TimestampFormats ==
    <<"2006-01-02T15:04:05.999999999Z07:00",   \* time.RFC3339Nano
      "2006-01-02T15:04:05Z07:00",             \* time.RFC3339
      "2006-01-02T15:04:05.000000000Z",
      "2006-01-02T15:04:05.000Z">>

\* the digits a layout with a .000 field demands after the seconds
FixedFrac(layout) == IF layout = TimestampFormats[3] THEN 9 ELSE 3

\* the field .000 of k digits, read by parseNanoseconds and atoi: a comma or
\* a period, then k bytes that are digits, the first of which may be a sign
\* instead; a minus is out of range unless the digits are zeros
FixedFracOK(s, k) ==
    LET f      == AfterClock(s)
        signed == IF s[f + 1] \in {43, 45} THEN 1 ELSE 0
    IN  /\ Len(s) >= f + k
        /\ commaOrPeriod(s[f])
        /\ DigitsAt(s, f + 1 + signed, k - signed)
        /\ s[f + 1] = 45 => NumAt(s, f + 2, k - 1) = 0

\* the nanoseconds of a field .000 of k digits
FixedNanos(s, k) ==
    LET f      == AfterClock(s)
        signed == IF s[f + 1] \in {43, 45} THEN 1 ELSE 0
    IN  NumAt(s, f + 1 + signed, k - signed) * Pow10(9 - k)

\* time.Parse accepts the value under the layout.  Under the two RFC 3339
\* layouts a fraction of any length may follow the seconds, and the zone is
\* Z or an offset; a layout that ends in .000...Z demands exactly its digits
\* and the letter Z.  Nothing may follow.
Accepts(layout, s) ==
    /\ ClockOK(s)
    /\ IF layout \in {TimestampFormats[1], TimestampFormats[2]}
       THEN ZoneOK(s, ZoneAt(s, FracLen(s)))
       ELSE LET k == FixedFrac(layout)
                z == AfterClock(s) + k + 1
            IN  FixedFracOK(s, k) /\ Len(s) = z /\ s[z] = 90

\* time.Parse(layout, s): the time, or the error
TimeParse(layout, s) ==
    IF Accepts(layout, s)
    THEN LET h     == HourLen(s)
             rfc   == layout \in {TimestampFormats[1], TimestampFormats[2]}
         IN  [ok   |-> TRUE,
              time |-> Date(NumAt(s, 1, 4), NumAt(s, 6, 2), NumAt(s, 9, 2),
                            NumAt(s, 12, h), NumAt(s, 13 + h, 2), NumAt(s, 16 + h, 2),
                            IF rfc THEN Nanos(s, FracLen(s))
                            ELSE FixedNanos(s, FixedFrac(layout)),
                            IF rfc THEN ZoneOffset(s, ZoneAt(s, FracLen(s))) ELSE 0)]
    ELSE [ok |-> FALSE, time |-> ZeroTime]

\* the loop over the formats: the first that parses wins
RECURSIVE TryFormats(_, _)
TryFormats(formats, s) ==
    IF formats = << >> THEN [ok |-> FALSE, time |-> ZeroTime]
    ELSE LET r == TimeParse(Head(formats), s)
         IN  IF r.ok THEN r ELSE TryFormats(Tail(formats), s)

(* ---------------------------------------------------------------------- *)
(* parseLogEntry                                                          *)
(* ---------------------------------------------------------------------- *)

\* LogEntry{}
EmptyLogEntry ==
    [ContainerID |-> "", Timestamp |-> ZeroTime, Message |-> << >>, Stream |-> ""]

\* the frame header taken off whenever the line has 8 bytes, whatever the first
StripAnyHeader(l) == IF Len(l) >= 8 THEN SubSeq(l, 9, Len(l)) ELSE l

\* the 8-byte header of the multiplexed format, taken off when the line has
\* 8 bytes or more and its first byte is 1 (stdout) or 2 (stderr)
StripHeader(l) ==
    IF Len(l) >= 8 /\ (l[1] = 1 \/ l[1] = 2) THEN SubSeq(l, 9, Len(l)) ELSE l

\* parseLogEntry(containerID, line), with time.Now() returning the tick now
parseLogEntry(containerID, l, now) ==
    IF Len(l) = 0 THEN EmptyLogEntry
    ELSE LET originalLine == l
             stripped     == TrimSpace(StripHeader(l))
         IN  IF Len(stripped) = 0 THEN EmptyLogEntry
             ELSE LET parts     == SplitN2(stripped)
                      ts        == IF Len(parts) >= 2
                                   THEN TryFormats(TimestampFormats, parts[1])
                                   ELSE [ok |-> FALSE, time |-> ZeroTime]
                      timestamp == IF ts.ok THEN ts.time ELSE NowTime(now)
                      message   == IF ts.ok THEN parts[2] ELSE stripped
                  IN  [ContainerID |-> containerID,
                       Timestamp   |-> timestamp,
                       Message     |-> IF message = << >>
                                       THEN TrimSpace(originalLine)
                                       ELSE message,
                       Stream      |-> "stdout"]

\* StreamLogs sending an entry for every line it reads
ForwardsAlways(l, message) == TRUE

\* the tests of StreamLogs before the send: line != "" and entry.Message != ""
Forwards(l, message) == l # << >> /\ message # << >>

(* ---------------------------------------------------------------------- *)
(* Lines given to parseLogEntry                                           *)
(* ---------------------------------------------------------------------- *)

\* spaces put before and after the text of a line
MaxPad == 2

\* ticks of the clock time.Now() reads
MaxNow == 2

Spaces(n) == [i \in 1..n |-> 32]

\* what can stand in front of the text: nothing, a frame header of stdout and
\* one of stderr (payload length 5), 8 bytes that start with 0, and 3 bytes
\* that start with 1
Headers ==
    <<[kind |-> "none",  bytes |-> << >>],
      [kind |-> "frame", bytes |-> <<1, 0, 0, 0, 0, 0, 0, 5>>],
      [kind |-> "frame", bytes |-> <<2, 0, 0, 0, 0, 0, 0, 5>>],
      [kind |-> "zero",  bytes |-> <<0, 0, 0, 0, 0, 0, 0, 5>>],
      [kind |-> "short", bytes |-> <<1, 0, 0>>]>>

\* the timestamp expected is the reading of the clock
NowStamp == [kind |-> "now"]

\* the texts, each with the message and the timestamp a line made of the text
\* alone is to give
Texts ==
    <<
      \* the empty text
      [bytes |-> << >>,
       msg   |-> << >>,
       stamp |-> ZeroTime],
      \* a tab: whitespace only
      [bytes |-> <<9>>,
       msg   |-> << >>,
       stamp |-> ZeroTime],
      \* "hello world"
      [bytes |-> <<104, 101, 108, 108, 111, 32, 119, 111, 114, 108, 100>>,
       msg   |-> <<104, 101, 108, 108, 111, 32, 119, 111, 114, 108, 100>>,
       stamp |-> NowStamp],
      \* the ideographic space U+3000: whitespace only
      [bytes |-> <<227, 128, 128>>,
       msg   |-> << >>,
       stamp |-> ZeroTime],
      \* the no-break space U+00A0, then "hi"
      [bytes |-> <<194, 160, 104, 105>>,
       msg   |-> <<104, 105>>,
       stamp |-> NowStamp],
      \* "hi", then the next line U+0085
      [bytes |-> <<104, 105, 194, 133>>,
       msg   |-> <<104, 105>>,
       stamp |-> NowStamp],
      \* "hello"
      [bytes |-> <<104, 101, 108, 108, 111>>,
       msg   |-> <<104, 101, 108, 108, 111>>,
       stamp |-> NowStamp],
      \* "2024-01-15T10:30:00.123456789Z started"
      [bytes |-> <<50, 48, 50, 52, 45, 48, 49, 45, 49, 53, 84, 49, 48, 58, 51, 48, 58, 48, 48, 46, 49, 50, 51, 52, 53, 54, 55, 56, 57, 90, 32, 115, 116, 97, 114, 116, 101, 100>>,
       msg   |-> <<115, 116, 97, 114, 116, 101, 100>>,
       stamp |-> Date(2024, 1, 15, 10, 30, 0, 123456789, 0)],
      \* "2024-01-15T10:30:00Z hello"
      [bytes |-> <<50, 48, 50, 52, 45, 48, 49, 45, 49, 53, 84, 49, 48, 58, 51, 48, 58, 48, 48, 90, 32, 104, 101, 108, 108, 111>>,
       msg   |-> <<104, 101, 108, 108, 111>>,
       stamp |-> Date(2024, 1, 15, 10, 30, 0, 0, 0)],
      \* "2024-01-15T10:30:00.123Z x y"
      [bytes |-> <<50, 48, 50, 52, 45, 48, 49, 45, 49, 53, 84, 49, 48, 58, 51, 48, 58, 48, 48, 46, 49, 50, 51, 90, 32, 120, 32, 121>>,
       msg   |-> <<120, 32, 121>>,
       stamp |-> Date(2024, 1, 15, 10, 30, 0, 123000000, 0)],
      \* "2024-01-15T10:30:00+02:00 up"
      [bytes |-> <<50, 48, 50, 52, 45, 48, 49, 45, 49, 53, 84, 49, 48, 58, 51, 48, 58, 48, 48, 43, 48, 50, 58, 48, 48, 32, 117, 112>>,
       msg   |-> <<117, 112>>,
       stamp |-> Date(2024, 1, 15, 10, 30, 0, 0, 120)],
      \* two spaces after the timestamp
      [bytes |-> <<50, 48, 50, 52, 45, 48, 49, 45, 49, 53, 84, 49, 48, 58, 51, 48, 58, 48, 48, 46, 49, 50, 51, 52, 53, 54, 55, 56, 57, 90, 32, 32, 112, 97, 100, 100, 101, 100>>,
       msg   |-> <<32, 112, 97, 100, 100, 101, 100>>,
       stamp |-> Date(2024, 1, 15, 10, 30, 0, 123456789, 0)],
      \* a timestamp and nothing else
      [bytes |-> <<50, 48, 50, 52, 45, 48, 49, 45, 49, 53, 84, 49, 48, 58, 51, 48, 58, 48, 48, 46, 49, 50, 51, 52, 53, 54, 55, 56, 57, 90>>,
       msg   |-> <<50, 48, 50, 52, 45, 48, 49, 45, 49, 53, 84, 49, 48, 58, 51, 48, 58, 48, 48, 46, 49, 50, 51, 52, 53, 54, 55, 56, 57, 90>>,
       stamp |-> NowStamp],
      \* a tab, not a space, after the timestamp
      [bytes |-> <<50, 48, 50, 52, 45, 48, 49, 45, 49, 53, 84, 49, 48, 58, 51, 48, 58, 48, 48, 90, 9, 120>>,
       msg   |-> <<50, 48, 50, 52, 45, 48, 49, 45, 49, 53, 84, 49, 48, 58, 51, 48, 58, 48, 48, 90, 9, 120>>,
       stamp |-> NowStamp],
      \* "2024-01-15 10:30:00 started"
      [bytes |-> <<50, 48, 50, 52, 45, 48, 49, 45, 49, 53, 32, 49, 48, 58, 51, 48, 58, 48, 48, 32, 115, 116, 97, 114, 116, 101, 100>>,
       msg   |-> <<50, 48, 50, 52, 45, 48, 49, 45, 49, 53, 32, 49, 48, 58, 51, 48, 58, 48, 48, 32, 115, 116, 97, 114, 116, 101, 100>>,
       stamp |-> NowStamp],
      \* month 13
      [bytes |-> <<50, 48, 50, 52, 45, 49, 51, 45, 49, 53, 84, 49, 48, 58, 51, 48, 58, 48, 48, 90, 32, 98, 97, 100>>,
       msg   |-> <<50, 48, 50, 52, 45, 49, 51, 45, 49, 53, 84, 49, 48, 58, 51, 48, 58, 48, 48, 90, 32, 98, 97, 100>>,
       stamp |-> NowStamp],
      \* a one-digit hour: "2024-01-15T1:30:00Z hello"
      [bytes |-> <<50, 48, 50, 52, 45, 48, 49, 45, 49, 53, 84, 49, 58, 51, 48, 58, 48, 48, 90, 32, 104, 101, 108, 108, 111>>,
       msg   |-> <<104, 101, 108, 108, 111>>,
       stamp |-> Date(2024, 1, 15, 1, 30, 0, 0, 0)],
      \* a comma before the fraction: "2024-01-15T10:30:00,5Z hello"
      [bytes |-> <<50, 48, 50, 52, 45, 48, 49, 45, 49, 53, 84, 49, 48, 58, 51, 48, 58, 48, 48, 44, 53, 90, 32, 104, 101, 108, 108, 111>>,
       msg   |-> <<104, 101, 108, 108, 111>>,
       stamp |-> Date(2024, 1, 15, 10, 30, 0, 500000000, 0)],
      \* an offset of 24 hours: "2024-01-15T10:30:00+24:00 up"
      [bytes |-> <<50, 48, 50, 52, 45, 48, 49, 45, 49, 53, 84, 49, 48, 58, 51, 48, 58, 48, 48, 43, 50, 52, 58, 48, 48, 32, 117, 112>>,
       msg   |-> <<117, 112>>,
       stamp |-> Date(2024, 1, 15, 10, 30, 0, 0, 1440)],
      \* an offset of 60 minutes: "2024-01-15T10:30:00-02:60 up"
      [bytes |-> <<50, 48, 50, 52, 45, 48, 49, 45, 49, 53, 84, 49, 48, 58, 51, 48, 58, 48, 48, 45, 48, 50, 58, 54, 48, 32, 117, 112>>,
       msg   |-> <<117, 112>>,
       stamp |-> Date(2024, 1, 15, 10, 30, 0, 0, -180)],
      \* an offset of 25 hours: "2024-01-15T10:30:00+25:00 up"
      [bytes |-> <<50, 48, 50, 52, 45, 48, 49, 45, 49, 53, 84, 49, 48, 58, 51, 48, 58, 48, 48, 43, 50, 53, 58, 48, 48, 32, 117, 112>>,
       msg   |-> <<117, 112>>,
       stamp |-> Date(2024, 1, 15, 10, 30, 0, 0, 1500)],
      \* a sign in the field .000: "2024-01-15T10:30:00.+12Z x"
      [bytes |-> <<50, 48, 50, 52, 45, 48, 49, 45, 49, 53, 84, 49, 48, 58, 51, 48, 58, 48, 48, 46, 43, 49, 50, 90, 32, 120>>,
       msg   |-> <<120>>,
       stamp |-> Date(2024, 1, 15, 10, 30, 0, 12000000, 0)],
      \* text after the zone: "2024-01-15T10:30:00Zx y"
      [bytes |-> <<50, 48, 50, 52, 45, 48, 49, 45, 49, 53, 84, 49, 48, 58, 51, 48, 58, 48, 48, 90, 120, 32, 121>>,
       msg   |-> <<50, 48, 50, 52, 45, 48, 49, 45, 49, 53, 84, 49, 48, 58, 51, 48, 58, 48, 48, 90, 120, 32, 121>>,
       stamp |-> NowStamp],
      \* the 30th of February: "2024-02-30T10:30:00Z bad"
      [bytes |-> <<50, 48, 50, 52, 45, 48, 50, 45, 51, 48, 84, 49, 48, 58, 51, 48, 58, 48, 48, 90, 32, 98, 97, 100>>,
       msg   |-> <<50, 48, 50, 52, 45, 48, 50, 45, 51, 48, 84, 49, 48, 58, 51, 48, 58, 48, 48, 90, 32, 98, 97, 100>>,
       stamp |-> NowStamp]
    >>

\* a line: a header, spaces, a text, spaces
Inputs == [hdr : 1..Len(Headers), lead : 0..MaxPad, text : 1..Len(Texts), trail : 0..MaxPad]

LineOf(in) ==
    Headers[in.hdr].bytes \o Spaces(in.lead) \o Texts[in.text].bytes \o Spaces(in.trail)

\* no line given, parseLogEntry not called
NoInput == [hdr |-> 1, lead |-> 0, text |-> 1, trail |-> 0]

NotParsed == [called |-> FALSE]

(* ---------------------------------------------------------------------- *)
(* Lines and entries                                                      *)
(* ---------------------------------------------------------------------- *)

\* A line of the stream: "text" is the n-th line whose parsed message is not
\* empty (entries are told apart by n), "empty" is the empty line "", "space"
\* is a line of whitespace only.
NoLine == [kind |-> "none", n |-> 0]

\* the bytes of a line of each kind
KindBytes ==
    [k \in {"text", "empty", "space"} |->
        IF k = "text" THEN Texts[3].bytes ELSE IF k = "space" THEN Spaces(2) ELSE << >>]

\* the message parseLogEntry returns for a line of each kind
KindMessage ==
    [k \in DOMAIN KindBytes |-> parseLogEntry("c", KindBytes[k], 1).Message]

\* the entry parseLogEntry returns for a line: the entries of text lines are
\* told apart by n, an entry with the empty message is the zero entry
EntryOf(l) ==
    IF l.kind \in DOMAIN KindBytes /\ KindMessage[l.kind] # << >> THEN l.n ELSE ZeroEntry

\* the line "[red]Error streaming logs: ..." of startLogStreaming
ErrLine == -1

(* ---------------------------------------------------------------------- *)
(* ContainerContext                                                       *)
(* ---------------------------------------------------------------------- *)

\* NewContainerContext
NewLogBuffer == [arr |-> 1, off |-> 0, len |-> 0, cap |-> BufCap]

NewHeap == [a \in ArrIds |-> IF a = 1 THEN Zeros(BufCap) ELSE << >>]

Running == panicked = "none"

\* calls of Initialize on one context in a run
MaxInits == 3

\* the zero value of sync.RWMutex: no writer, no reader
NoLock == [w |-> FALSE, r |-> {}]

\* the manager's lock, held by no call
NoCcmLock == [mu |-> "none", todo |-> << >>]

\* no pair of contexts is followed side by side
NoPipes == [cx |-> << >>, mus |-> << >>, caller |-> [pc |-> "idle", todo |-> << >>],
            updates |-> << >>]

\* no call of ccm.SetSelected is between its lookup and its write
NoSelecting == [pc |-> "idle", index |-> 0, selected |-> FALSE, context |-> 0]

\* the event loop before any key: nothing pressed, nothing queued, no
\* goroutine of the export and no timer of a help message
NewLoop == [pc |-> "select", keys |-> << >>, pressed |-> 0, handled |-> 0,
            queue |-> << >>, exports |-> 0, exportsWaiting |-> 0,
            timers |-> 0, timersWaiting |-> 0]

\* the view as setupLogView leaves it and the flag as NewContainerContext
\* does: border in cc.Color, not selected, nothing of the queue drawn yet
NewView == [drawn |-> 0, IsSelected |-> FALSE, border |-> "Color", writes |-> {},
            inside |-> {}]

\* the context as NewContainerContext leaves what Initialize works on: no view
\* yet, no goroutine started, Initialize not called
NoAux ==
    /\ LogView = 0
    /\ started = [StreamLogs |-> 0, processLogs |-> 0]
    /\ inits = [calls |-> 0, err |-> FALSE]
    /\ simple = [pc |-> "idle", printed |-> << >>]
    /\ mu = NoLock
    /\ ui = NewView
    /\ ccmLock = NoCcmLock
    /\ selecting = NoSelecting
    /\ pipes = NoPipes
    /\ loop = NewLoop

\* setupLogView: cc.LogView = tview.NewTextView()..., one more TextView
setupLogView(calls) == calls + 1

\* the goroutine of App.Run: it calls setupGrid and then a.app.Run(), the
\* event loop of the application, which returns when the application stops
EventLoop == "App.Run"

\* the task that runs an update handed over with QueueUpdateDraw.  The queue
\* and its consumer are tview's, not part of the sources; the specification
\* has the updates submitted to the single-threaded event loop of the UI, the
\* one consumer of the submissions
QueuedUpdateTask == EventLoop

\* the task that runs the handler of a key (the function given to
\* SetInputCapture): tview's event loop again
InputCaptureTask == EventLoop

\* a method of the view (fmt.Fprintf and ScrollToEnd, SetBorderColor) run by
\* a task: the write as the view has it, with the task that made it and the
\* other tasks that were inside a method of the same view at that moment
ViewWrite(u, task, what, from) ==
    [u EXCEPT !.writes = @ \cup {[what |-> what, from |-> from, by |-> task,
                                  beside |-> u.inside \ {task}]}]

\* AppendLog writing the line itself, on the goroutine of its caller:
\* fmt.Fprintf(cc.LogView, ...) with no QueueUpdateDraw around it
AppendLogDirect(u, q, task, l) ==
    [ui |-> ViewWrite(u, task, "text", task), queue |-> q]

\* AppendLog called by a task with the line l: cc.app.QueueUpdateDraw(func()
\* {...}) hands the write over as an update in the application's queue; the
\* view is not touched by the caller
AppendLog(u, q, task, l) ==
    [ui |-> u, queue |-> Append(q, l)]

\* ContainerContext.SetSelected, first statement: cc.IsSelected = selected;
\* the task is about to call SetBorderColor when there is a view
SetSelectedFlag(u, view, task, selected) ==
    [u EXCEPT !.IsSelected = selected,
              !.inside     = IF view # 0 THEN @ \cup {task} ELSE @]

\* ContainerContext.SetSelected, the rest: cc.LogView.SetBorderColor(...) in
\* orange or in cc.Color when cc.LogView is not nil
SetSelectedBorder(u, view, task) ==
    IF view # 0
    THEN [ViewWrite(u, task, "border", "focusContainer") EXCEPT
            !.border = IF u.IsSelected THEN "orange" ELSE "Color",
            !.inside = @ \ {task}]
    ELSE u

\* Initialize: setupLogView, which makes the view anew and gives it the border
\* cc.Color whatever IsSelected says, then startLogStreaming behind its
\* streamStarted guard, which starts the goroutine of StreamLogs and
\* processLogs; the return value is that of startLogStreaming, nil on both
\* paths
Initialize ==
    /\ Running
    /\ inits.calls < MaxInits
    /\ LogView' = setupLogView(inits.calls)
    /\ ui' = [ui EXCEPT !.border = "Color"]
    /\ IF streamStarted
       THEN UNCHANGED <<streamStarted, readerPc, procPc, started>>
       ELSE /\ streamStarted' = TRUE
            /\ readerPc' = "open"
            /\ procPc' = "select"
            /\ started' = [StreamLogs  |-> started.StreamLogs + 1,
                           processLogs |-> started.processLogs + 1]
    /\ inits' = [calls |-> inits.calls + 1, err |-> FALSE]
    /\ UNCHANGED <<heap, LogBuffer, LogChannel, chClosed, cancelled, line, entry,
                   cleanupPc, cleanups, closes, panicked, budget, ended, lineNo,
                   sink, sent, appended, snaps, snapGhost>>
    /\ UNCHANGED <<ccmVars, input, parsed, sdk, app, pipes, loop, ccmLock, selecting, simple, mu>>

\* what one call of Initialize leaves of the view and the histories, and the
\* event loop of the view once it has run every update of processLogs
Initialized ==
    /\ LogView = 1
    /\ started = [StreamLogs |-> 1, processLogs |-> 1]
    /\ inits = [calls |-> 1, err |-> FALSE]
    /\ simple = [pc |-> "idle", printed |-> << >>]
    /\ mu = NoLock
    /\ ui = [NewView EXCEPT
               !.drawn  = Len(sink),
               !.writes = IF sink = << >> THEN {}
                          ELSE {[what |-> "text", from |-> "processLogs",
                                 by |-> QueuedUpdateTask, beside |-> {}]}]
    /\ ccmLock = NoCcmLock
    /\ selecting = NoSelecting
    /\ pipes = NoPipes
    /\ loop = NewLoop

\* the call context.Initialize(dockerService) of InitializeContexts, the one
\* call the application makes on a context: on the context just constructed
InitializeNew ==
    /\ inits.calls = 0
    /\ Initialize

\* StreamLogs starting its reader goroutine before it knows of the failure
StreamLogsStartsFirst(err) == "scan"

\* StreamLogs up to its return: on an error of cmd.StdoutPipe() or cmd.Start()
\* it returns the error and has started nothing; else it starts the reader
\* goroutine, which begins to scan, and returns nil
StreamLogsReturns(err) == IF err THEN "failed" ELSE "scan"

\* the goroutine of startLogStreaming calls StreamLogs: the docker process
\* starts, or the call fails and the goroutine reports the error through
\* AppendLog
StreamLogsOpen ==
    /\ Running
    /\ readerPc = "open"
    /\ \E err \in BOOLEAN :
         /\ readerPc' = StreamLogsReturns(err)
         /\ IF err
            THEN LET r == AppendLog(ui, sink, "startLogStreaming", ErrLine)
                 IN  sink' = r.queue /\ ui' = r.ui
            ELSE UNCHANGED <<sink, ui>>
    /\ UNCHANGED <<heap, LogBuffer, LogChannel, chClosed, cancelled, streamStarted,
                   line, procPc, entry, cleanupPc, cleanups, closes, panicked,
                   budget, ended, lineNo, sent, appended, snaps, snapGhost>>
    /\ UNCHANGED <<ccmVars, input, parsed, sdk, app, pipes, loop, ccmLock, selecting, LogView, started, inits, simple, mu>>

\* scanner.Scan() returns true: the stream delivered one more line
ScanLine ==
    /\ Running
    /\ readerPc = "scan"
    /\ \/ /\ budget > 0
          /\ line' = [kind |-> "text", n |-> lineNo + 1]
          /\ lineNo' = lineNo + 1
          /\ budget' = budget - 1
       \/ /\ \E k \in {"empty", "space"} : line' = [kind |-> k, n |-> 0]
          /\ UNCHANGED <<lineNo, budget>>
    /\ readerPc' = "check"
    /\ UNCHANGED <<heap, LogBuffer, LogChannel, chClosed, cancelled, streamStarted,
                   procPc, entry, cleanupPc, cleanups, closes, panicked,
                   ended, sink, sent, appended, snaps, snapGhost>>
    /\ UNCHANGED <<ccmVars, restVars>>

\* scanner.Scan() returns false: end of the stream (or a read error)
ScanEnd ==
    /\ Running
    /\ readerPc = "scan"
    /\ ended' = TRUE
    /\ readerPc' = "exit"
    /\ UNCHANGED <<heap, LogBuffer, LogChannel, chClosed, cancelled, streamStarted,
                   line, procPc, entry, cleanupPc, cleanups, closes, panicked,
                   budget, lineNo, sink, sent, appended, snaps, snapGhost>>
    /\ UNCHANGED <<ccmVars, restVars>>

\* where the reader goes after Scan: the outer select on ctx.Done() with its
\* default branch, the tests line != "" and entry.Message != ""
AfterScan(isCancelled, l) ==
    IF isCancelled THEN "exit"
    ELSE IF Forwards(KindBytes[l.kind], KindMessage[l.kind]) THEN "send"
    ELSE "scan"

ReaderCheck ==
    /\ Running
    /\ readerPc = "check"
    /\ readerPc' = AfterScan(cancelled, line)
    /\ line' = IF readerPc' = "send" THEN line ELSE NoLine
    /\ UNCHANGED <<heap, LogBuffer, LogChannel, chClosed, cancelled, streamStarted,
                   procPc, entry, cleanupPc, cleanups, closes, panicked,
                   budget, ended, lineNo, sink, sent, appended, snaps, snapGhost>>
    /\ UNCHANGED <<ccmVars, restVars>>

\* a channel that takes a send whatever it holds
CanSendAlways(ch) == TRUE

\* the send case of the inner select can proceed: the channel has room
CanSend(ch) == Len(ch) < ChanCap

\* the inner select { case logCh <- entry: ; case <-ctx.Done(): return }
ReaderSend ==
    /\ Running
    /\ readerPc = "send"
    /\ \/ /\ ~chClosed
          /\ CanSend(LogChannel)
          /\ LogChannel' = Append(LogChannel, EntryOf(line))
          /\ sent' = Append(sent, EntryOf(line))
          /\ readerPc' = "scan"
          /\ UNCHANGED panicked
       \/ /\ chClosed
          /\ panicked' = "send on closed channel"
          /\ UNCHANGED <<LogChannel, sent, readerPc>>
       \/ /\ cancelled
          /\ readerPc' = "exit"
          /\ UNCHANGED <<LogChannel, sent, panicked>>
    /\ line' = IF readerPc' = "send" THEN line ELSE NoLine
    /\ UNCHANGED <<heap, LogBuffer, chClosed, cancelled, streamStarted,
                   procPc, entry, cleanupPc, cleanups, closes, budget, ended,
                   lineNo, sink, appended, snaps, snapGhost>>
    /\ UNCHANGED <<ccmVars, restVars>>

\* the deferred calls of the reader goroutine, ending with close(logCh)
ReaderExit ==
    /\ Running
    /\ readerPc = "exit"
    /\ closes' = Append(closes, "reader")
    /\ IF chClosed
       THEN /\ panicked' = "close of closed channel"
            /\ UNCHANGED <<chClosed, readerPc>>
       ELSE /\ chClosed' = TRUE
            /\ readerPc' = "done"
            /\ UNCHANGED panicked
    /\ UNCHANGED <<heap, LogBuffer, LogChannel, cancelled, streamStarted,
                   line, procPc, entry, cleanupPc, cleanups, budget, ended, lineNo,
                   sink, sent, appended, snaps, snapGhost>>
    /\ UNCHANGED <<ccmVars, restVars>>

\* a receive that takes the newest entry of the channel
RecvNewest(ch) == ch[Len(ch)]

\* the entry a receive takes from the channel, and what it leaves
RecvEntry(ch) == Head(ch)

RecvRest(ch) == Tail(ch)

\* processLogs: the select on ctx.Done() and the receive from LogChannel
ProcSelect ==
    /\ Running
    /\ procPc = "select"
    /\ \/ /\ cancelled
          /\ procPc' = "done"
          /\ UNCHANGED <<LogChannel, entry>>
       \/ /\ Len(LogChannel) > 0
          /\ entry' = RecvEntry(LogChannel)
          /\ LogChannel' = RecvRest(LogChannel)
          /\ procPc' = "append"
       \/ /\ Len(LogChannel) = 0
          /\ chClosed
          /\ procPc' = "done"
          /\ UNCHANGED <<LogChannel, entry>>
    /\ UNCHANGED <<heap, LogBuffer, chClosed, cancelled, streamStarted,
                   readerPc, line, cleanupPc, cleanups, closes, panicked, budget,
                   ended, lineNo, sink, sent, appended, snaps, snapGhost>>
    /\ UNCHANGED <<ccmVars, restVars>>

\* Evict with the test off by one: the buffer is let grow to 51
EvictLate(s) == IF s.len > BufCap + 1 THEN SliceFrom1(s) ELSE s

\* Evict dropping the newest entry instead of the oldest
EvictNewest(s) == IF s.len > BufCap THEN [s EXCEPT !.len = @ - 1] ELSE s

\* if len(cc.LogBuffer) > 50 { cc.LogBuffer = cc.LogBuffer[1:] }
Evict(s) == IF s.len > BufCap THEN SliceFrom1(s) ELSE s

\* processLogs: the critical section under cc.mu.Lock()
ProcAppend ==
    /\ Running
    /\ procPc = "append"
    /\ LET r == AppendSlice(heap, LogBuffer, entry, snaps)
           b == Evict(r.slice)
       IN  /\ LogBuffer' = b
           /\ heap' = Collect(r.heap, b, snaps)
    /\ appended' = Append(appended, entry)
    /\ procPc' = "appendlog"
    /\ UNCHANGED <<LogChannel, chClosed, cancelled, streamStarted, readerPc,
                   line, entry, cleanupPc, cleanups, closes, panicked, budget, ended,
                   lineNo, sink, sent, snaps, snapGhost>>
    /\ UNCHANGED <<ccmVars, restVars>>

\* the task that called AppendLog with a line: the goroutine of
\* startLogStreaming with the error of StreamLogs, processLogs with an entry
SubmitterOf(l) == IF l = ErrLine THEN "startLogStreaming" ELSE "processLogs"

\* the event loop, back at its select, runs the next queued update of
\* AppendLog: fmt.Fprintf(cc.LogView, ...) and cc.LogView.ScrollToEnd()
UiDraw ==
    /\ Running
    /\ loop.pc = "select"
    /\ ui.drawn < Len(sink)
    /\ ui' = [ViewWrite(ui, QueuedUpdateTask, "text", SubmitterOf(sink[ui.drawn + 1]))
                EXCEPT !.drawn = @ + 1]
    /\ UNCHANGED ccVars
    /\ UNCHANGED <<ccmVars, input, parsed, sdk, app, pipes, loop, ccmLock, selecting, LogView, started, inits, simple, mu>>

\* processLogs: cc.AppendLog(logLine), up to the hand-over of the update to
\* the application: QueueUpdateDraw puts it in the queue of the event loop
ProcAppendLog ==
    /\ Running
    /\ procPc = "appendlog"
    /\ LET r == AppendLog(ui, sink, "processLogs", entry)
       IN  sink' = r.queue /\ ui' = r.ui
    /\ procPc' = "queued"
    /\ UNCHANGED <<heap, LogBuffer, LogChannel, chClosed, cancelled, streamStarted,
                   readerPc, line, entry, cleanupPc, cleanups, closes, panicked,
                   budget, ended, lineNo, sent, appended, snaps, snapGhost>>
    /\ UNCHANGED <<ccmVars, input, parsed, sdk, app, pipes, loop, ccmLock, selecting, LogView, started, inits, simple, mu>>

\* processLogs: QueueUpdateDraw returns, which it does once the event loop has
\* run the update, and the loop of processLogs is back at its select
ProcAppendLogReturns ==
    /\ Running
    /\ procPc = "queued"
    /\ \E i \in 1..ui.drawn : sink[i] = entry
    /\ entry' = ZeroEntry
    /\ procPc' = "select"
    /\ UNCHANGED <<heap, LogBuffer, LogChannel, chClosed, cancelled, streamStarted,
                   readerPc, line, cleanupPc, cleanups, closes, panicked,
                   budget, ended, lineNo, sink, sent, appended, snaps, snapGhost>>
    /\ UNCHANGED <<ccmVars, restVars>>

\* Cleanup, first statement: cc.cancel()
CleanupCancel ==
    /\ Running
    /\ streamStarted
    /\ cleanupPc = "idle"
    /\ cancelled' = TRUE
    /\ cleanupPc' = "close"
    /\ UNCHANGED <<heap, LogBuffer, LogChannel, chClosed, streamStarted,
                   readerPc, line, procPc, entry, cleanups, closes, panicked, budget,
                   ended, lineNo, sink, sent, appended, snaps, snapGhost>>
    /\ UNCHANGED <<ccmVars, restVars>>

\* Cleanup, second statement: close(cc.LogChannel)
CleanupClose ==
    /\ Running
    /\ cleanupPc = "close"
    /\ closes' = Append(closes, "cleanup")
    /\ IF chClosed
       THEN /\ panicked' = "close of closed channel"
            /\ UNCHANGED <<chClosed, cleanupPc, cleanups>>
       ELSE /\ chClosed' = TRUE
            /\ cleanupPc' = "idle"
            /\ cleanups' = cleanups + 1
            /\ UNCHANGED panicked
    /\ UNCHANGED <<heap, LogBuffer, LogChannel, cancelled, streamStarted,
                   readerPc, line, procPc, entry, budget, ended, lineNo, sink, sent,
                   appended, snaps, snapGhost>>
    /\ UNCHANGED <<ccmVars, restVars>>

\* GetLogBuffer returning cc.LogBuffer itself instead of a copy
GetLogBufferAlias(h, buf, held) == [heap |-> h, slice |-> buf]

\* GetLogBuffer: make a slice of len(cc.LogBuffer) and copy into it, under RLock
GetLogBufferCopy(h, buf, held) ==
    LET a == FreeArr(h, buf, held)
    IN  [heap  |-> [h EXCEPT ![a] = SliceElems(h, buf)],
         slice |-> [arr |-> a, off |-> 0, len |-> buf.len, cap |-> buf.len]]

GetLogBuffer ==
    /\ Running
    /\ streamStarted
    /\ \E c \in Callers :
         /\ snaps[c] = NoSlice
         /\ LET r == GetLogBufferCopy(heap, LogBuffer, snaps)
            IN  /\ heap' = r.heap
                /\ snaps' = [snaps EXCEPT ![c] = r.slice]
                /\ snapGhost' = [snapGhost EXCEPT ![c] = SliceElems(r.heap, r.slice)]
    /\ UNCHANGED <<LogBuffer, LogChannel, chClosed, cancelled, streamStarted,
                   readerPc, line, procPc, entry, cleanupPc, cleanups, closes,
                   panicked, budget, ended, lineNo, sink, sent, appended>>
    /\ UNCHANGED <<ccmVars, restVars>>

\* a caller lets go of the slice it holds
DropSnapshot ==
    /\ Running
    /\ \E c \in Callers :
         /\ snaps[c] # NoSlice
         /\ snaps' = [snaps EXCEPT ![c] = NoSlice]
         /\ snapGhost' = [snapGhost EXCEPT ![c] = << >>]
         /\ heap' = Collect(heap, LogBuffer, [snaps EXCEPT ![c] = NoSlice])
    /\ UNCHANGED <<LogBuffer, LogChannel, chClosed, cancelled, streamStarted,
                   readerPc, line, procPc, entry, cleanupPc, cleanups, closes,
                   panicked, budget, ended, lineNo, sink, sent, appended>>
    /\ UNCHANGED <<ccmVars, restVars>>

(* ---------------------------------------------------------------------- *)
(* Specifications of one context                                          *)
(* ---------------------------------------------------------------------- *)

\* no call of parseLogEntry or of the SDK, no application
NoRest ==
    /\ input = NoInput
    /\ parsed = NotParsed
    /\ sdk = [pc |-> "idle"]
    /\ app = [pc |-> "idle"]

NoManager ==
    /\ NoRest
    /\ ctxs = << >>
    /\ contexts = << >>
    /\ orderedIDs = << >>
    /\ colorIndex = 0
    /\ mlast = [op |-> "none"]

\* the context as NewContainerContext returns it
InitContext ==
    /\ heap = NewHeap
    /\ LogBuffer = NewLogBuffer
    /\ LogChannel = << >>
    /\ chClosed = FALSE
    /\ cancelled = FALSE
    /\ streamStarted = FALSE
    /\ readerPc = "idle"
    /\ line = NoLine
    /\ procPc = "idle"
    /\ entry = ZeroEntry
    /\ cleanupPc = "idle"
    /\ cleanups = 0
    /\ closes = << >>
    /\ panicked = "none"
    /\ ended = FALSE
    /\ lineNo = 0
    /\ sink = << >>
    /\ sent = << >>
    /\ appended = << >>
    /\ snaps = NoSnaps
    /\ snapGhost = [c \in Callers |-> << >>]
    /\ NoAux

Init ==
    /\ InitContext
    /\ budget = MaxLines
    /\ NoManager

ReaderStep == StreamLogsOpen \/ ReaderCheck \/ ReaderSend \/ ReaderExit

ProcStep == ProcSelect \/ ProcAppend \/ ProcAppendLog \/ ProcAppendLogReturns

Next ==
    \/ InitializeNew
    \/ StreamLogsOpen
    \/ ScanLine
    \/ ScanEnd
    \/ ReaderCheck
    \/ ReaderSend
    \/ ReaderExit
    \/ ProcSelect
    \/ ProcAppend
    \/ ProcAppendLog
    \/ ProcAppendLogReturns
    \/ UiDraw
    \/ CleanupCancel
    \/ CleanupClose

Spec == Init /\ [][Next]_vars

\* a run that starts in mid-stream: the pipeline has delivered PrefillCount
\* entries, all tasks are waiting, and the stream has SnapLines more to give
\* (a state Spec reaches, see PrefilledReachable)
PrefillCount == 50

Prefix(n) == [i \in 1..n |-> i]

\* the critical section of processLogs on heap and buffer st, for entry e
AppendEvict(st, e) ==
    LET r == AppendSlice(st.heap, st.slice, e, NoSnaps)
        b == Evict(r.slice)
    IN  [heap |-> Collect(r.heap, b, NoSnaps), slice |-> b]

\* heap and buffer after processLogs has appended the entries i..n to st
RECURSIVE FillFrom(_, _, _)
FillFrom(st, i, n) ==
    IF i > n \/ st.slice.len < 0 THEN st  \* the second test only has st evaluated at each step
    ELSE FillFrom(AppendEvict(st, i), i + 1, n)

FilledBuffer(n) == FillFrom([heap |-> NewHeap, slice |-> NewLogBuffer], 1, n)

InitSnap ==
    /\ heap = FilledBuffer(PrefillCount).heap
    /\ LogBuffer = FilledBuffer(PrefillCount).slice
    /\ LogChannel = << >>
    /\ chClosed = FALSE
    /\ cancelled = FALSE
    /\ streamStarted = TRUE
    /\ readerPc = "scan"
    /\ line = NoLine
    /\ procPc = "select"
    /\ entry = ZeroEntry
    /\ cleanupPc = "idle"
    /\ cleanups = 0
    /\ closes = << >>
    /\ panicked = "none"
    /\ ended = FALSE
    /\ lineNo = PrefillCount
    /\ sink = Prefix(PrefillCount)
    /\ sent = Prefix(PrefillCount)
    /\ appended = Prefix(PrefillCount)
    /\ snaps = NoSnaps
    /\ snapGhost = [c \in Callers |-> << >>]
    /\ Initialized
    /\ budget = SnapLines
    /\ NoManager

NextSnap ==
    \/ ScanLine
    \/ ScanEnd
    \/ ReaderCheck
    \/ ReaderSend
    \/ ReaderExit
    \/ ProcSelect
    \/ ProcAppend
    \/ ProcAppendLog
    \/ ProcAppendLogReturns
    \/ UiDraw
    \/ CleanupCancel
    \/ CleanupClose
    \/ GetLogBuffer
    \/ DropSnapshot

SpecSnap == InitSnap /\ [][NextSnap]_vars

(* ---------------------------------------------------------------------- *)
(* The buffer under its lock, statement by statement                      *)
(* ---------------------------------------------------------------------- *)

\* cc.mu.Lock() can proceed: no writer and no reader holds the lock
CanLock(m) == ~m.w /\ m.r = {}

\* a read of the buffer that does not wait for the writer
CanRLockAlways(m) == TRUE

\* cc.mu.RLock() can proceed: no writer holds the lock
CanRLock(m) == ~m.w

\* processLogs: cc.mu.Lock()
ProcLock ==
    /\ Running
    /\ procPc = "append"
    /\ CanLock(mu)
    /\ mu' = [mu EXCEPT !.w = TRUE]
    /\ procPc' = "locked"
    /\ UNCHANGED <<heap, LogBuffer, LogChannel, chClosed, cancelled, streamStarted,
                   readerPc, line, entry, cleanupPc, cleanups, closes, panicked,
                   budget, ended, lineNo, sink, sent, appended, snaps, snapGhost>>
    /\ UNCHANGED <<ccmVars, input, parsed, sdk, app, pipes, loop, ccmLock, selecting, LogView, started, inits, simple, ui>>

\* processLogs: cc.LogBuffer = append(cc.LogBuffer, entry)
ProcLockedAppend ==
    /\ Running
    /\ procPc = "locked"
    /\ LET r == AppendSlice(heap, LogBuffer, entry, snaps)
       IN  /\ LogBuffer' = r.slice
           /\ heap' = Collect(r.heap, r.slice, snaps)
    /\ appended' = Append(appended, entry)
    /\ procPc' = "evict"
    /\ UNCHANGED <<LogChannel, chClosed, cancelled, streamStarted, readerPc,
                   line, entry, cleanupPc, cleanups, closes, panicked, budget, ended,
                   lineNo, sink, sent, snaps, snapGhost>>
    /\ UNCHANGED <<ccmVars, restVars>>

\* processLogs: if len(cc.LogBuffer) > 50 { cc.LogBuffer = cc.LogBuffer[1:] }
ProcEvict ==
    /\ Running
    /\ procPc = "evict"
    /\ LogBuffer' = Evict(LogBuffer)
    /\ procPc' = "unlock"
    /\ UNCHANGED <<heap, LogChannel, chClosed, cancelled, streamStarted, readerPc,
                   line, entry, cleanupPc, cleanups, closes, panicked, budget, ended,
                   lineNo, sink, sent, appended, snaps, snapGhost>>
    /\ UNCHANGED <<ccmVars, restVars>>

\* processLogs: cc.mu.Unlock()
ProcUnlock ==
    /\ Running
    /\ procPc = "unlock"
    /\ mu' = [mu EXCEPT !.w = FALSE]
    /\ procPc' = "appendlog"
    /\ UNCHANGED <<heap, LogBuffer, LogChannel, chClosed, cancelled, streamStarted,
                   readerPc, line, entry, cleanupPc, cleanups, closes, panicked,
                   budget, ended, lineNo, sink, sent, appended, snaps, snapGhost>>
    /\ UNCHANGED <<ccmVars, input, parsed, sdk, app, pipes, loop, ccmLock, selecting, LogView, started, inits, simple, ui>>

\* GetLogBuffer: cc.mu.RLock()
CallerRLock ==
    /\ Running
    /\ streamStarted
    /\ \E c \in Callers :
         /\ snaps[c] = NoSlice
         /\ c \notin mu.r
         /\ CanRLock(mu)
         /\ mu' = [mu EXCEPT !.r = @ \cup {c}]
    /\ UNCHANGED ccVars
    /\ UNCHANGED <<ccmVars, input, parsed, sdk, app, pipes, loop, ccmLock, selecting, LogView, started, inits, simple, ui>>

\* GetLogBuffer: make, copy, and the return through the deferred RUnlock
CallerCopy ==
    /\ Running
    /\ \E c \in mu.r :
         /\ LET r == GetLogBufferCopy(heap, LogBuffer, snaps)
            IN  /\ heap' = r.heap
                /\ snaps' = [snaps EXCEPT ![c] = r.slice]
                /\ snapGhost' = [snapGhost EXCEPT ![c] = SliceElems(r.heap, r.slice)]
         /\ mu' = [mu EXCEPT !.r = @ \ {c}]
    /\ UNCHANGED <<LogBuffer, LogChannel, chClosed, cancelled, streamStarted,
                   readerPc, line, procPc, entry, cleanupPc, cleanups, closes,
                   panicked, budget, ended, lineNo, sink, sent, appended>>
    /\ UNCHANGED <<ccmVars, input, parsed, sdk, app, pipes, loop, ccmLock, selecting, LogView, started, inits, simple, ui>>

\* the run from mid-stream with the critical sections of processLogs and
\* GetLogBuffer taken statement by statement
NextLock ==
    \/ ScanLine
    \/ ScanEnd
    \/ ReaderCheck
    \/ ReaderSend
    \/ ReaderExit
    \/ ProcSelect
    \/ ProcLock
    \/ ProcLockedAppend
    \/ ProcEvict
    \/ ProcUnlock
    \/ ProcAppendLog
    \/ ProcAppendLogReturns
    \/ UiDraw
    \/ CallerRLock
    \/ CallerCopy
    \/ DropSnapshot

SpecLock == InitSnap /\ [][NextLock]_vars

\* the state InitSnap starts from is a state of a run from construction
PrefilledReachable ==
    /\ lineNo = PrefillCount
    /\ LogChannel = << >>
    /\ readerPc = "scan" /\ procPc = "select" /\ cleanupPc = "idle"
    /\ streamStarted /\ cleanups = 0 /\ ~chClosed /\ ~cancelled /\ ~ended
    /\ LogBuffer = FilledBuffer(PrefillCount).slice
    /\ heap = FilledBuffer(PrefillCount).heap
    /\ sink = Prefix(PrefillCount) /\ sent = sink /\ appended = sink
    /\ line = NoLine /\ entry = ZeroEntry /\ panicked = "none"
    /\ Initialized

\* lines the stream produces in a run in simple mode
SimpleLines == 3

\* a run from construction over a short stream, with the scheduler's fairness:
\* a goroutine that can take a step of its own code eventually takes it.  The
\* stream is the environment: no fairness makes it deliver a line or end.
ShortLines == 2

InitShort ==
    /\ InitContext
    /\ budget = ShortLines
    /\ NoManager

FairSpec ==
    /\ InitShort
    /\ [][Next]_vars
    /\ WF_vars(ReaderStep)
    /\ WF_vars(ProcStep)
    /\ WF_vars(UiDraw)
    /\ WF_vars(CleanupClose)

\* the same run with no fairness assumed: every interleaving of the tasks
\* over the short stream
SpecShort == InitShort /\ [][Next]_vars

\* one context on which Initialize is called again while it streams
NextInit ==
    \/ Initialize
    \/ StreamLogsOpen
    \/ ScanLine
    \/ ScanEnd
    \/ ReaderCheck
    \/ ReaderSend
    \/ ReaderExit
    \/ ProcSelect
    \/ ProcAppend
    \/ ProcAppendLog
    \/ ProcAppendLogReturns
    \/ UiDraw
    \/ CleanupCancel
    \/ CleanupClose

SpecInit == InitShort /\ [][NextInit]_vars

(* ---------------------------------------------------------------------- *)
(* The view of the context and the event loop                             *)
(* ---------------------------------------------------------------------- *)

\* focusContainer, called by setupGrid before the event loop starts and by
\* the handlers of the navigation keys, is at context.SetSelected(selected):
\* the task is not in the middle of anything else, and the first statement
\* sets the flag
KeySetSelected ==
    /\ Running
    /\ inits.calls >= 1
    /\ loop.pc = "select"
    /\ \E selected \in BOOLEAN :
         ui' = SetSelectedFlag(ui, LogView, InputCaptureTask, selected)
    /\ loop' = [loop EXCEPT !.pc = "key"]
    /\ UNCHANGED ccVars
    /\ UNCHANGED <<ccmVars, input, parsed, sdk, app, pipes, ccmLock, selecting, LogView, started, inits, simple, mu>>

\* the same call of SetSelected sets the border colour of the view and
\* returns; the handler returns to the event loop
KeySetSelectedBorder ==
    /\ Running
    /\ loop.pc = "key"
    /\ ui' = SetSelectedBorder(ui, LogView, InputCaptureTask)
    /\ loop' = [loop EXCEPT !.pc = "select"]
    /\ UNCHANGED ccVars
    /\ UNCHANGED <<ccmVars, input, parsed, sdk, app, pipes, ccmLock, selecting, LogView, started, inits, simple, mu>>

\* the handler of the key r: restartFocusedContainer calls showHelpMessage on
\* each of its paths before it starts a goroutine, and showHelpMessage calls
\* QueueUpdateDraw on the event loop, which waits for an update only itself
\* could run: the goroutine that would give the result of the restart to
\* AppendLog is never started
KeyRestart ==
    /\ Running
    /\ inits.calls >= 1
    /\ loop.pc = "select"
    /\ loop' = [loop EXCEPT !.pc = "blocked", !.queue = Append(@, "loop")]
    /\ UNCHANGED ccVars
    /\ UNCHANGED <<ccmVars, input, parsed, sdk, app, pipes, ccmLock, selecting, LogView, started, inits, simple, mu, ui>>

\* one context in the TUI: its pipeline, the event loop, the keys of the
\* navigation and of the restart, and the export's reads of the buffer
NextUI ==
    \/ InitializeNew
    \/ StreamLogsOpen
    \/ ScanLine
    \/ ScanEnd
    \/ ReaderCheck
    \/ ReaderSend
    \/ ReaderExit
    \/ ProcSelect
    \/ ProcAppend
    \/ ProcAppendLog
    \/ ProcAppendLogReturns
    \/ UiDraw
    \/ KeySetSelected
    \/ KeySetSelectedBorder
    \/ KeyRestart
    \/ GetLogBuffer
    \/ DropSnapshot

SpecUI == InitShort /\ [][NextUI]_vars

(* ---------------------------------------------------------------------- *)
(* Specification of parseLogEntry                                         *)
(* ---------------------------------------------------------------------- *)

\* StreamLogs has read the line: it calls parseLogEntry and decides on the send
ParseLine ==
    /\ Running
    /\ ~parsed.called
    /\ \E now \in 1..MaxNow :
         LET e == parseLogEntry("c", LineOf(input), now)
         IN  parsed' = [called    |-> TRUE,
                        now       |-> now,
                        entry     |-> e,
                        forwarded |-> Forwards(LineOf(input), e.Message)]
    /\ UNCHANGED <<input, sdk, app, auxVars>>
    /\ UNCHANGED <<ccVars, ccmVars>>

InitParse ==
    /\ InitContext
    /\ budget = 0
    /\ ctxs = << >> /\ contexts = << >> /\ orderedIDs = << >>
    /\ colorIndex = 0 /\ mlast = [op |-> "none"]
    /\ input \in Inputs
    /\ parsed = NotParsed
    /\ sdk = [pc |-> "idle"]
    /\ app = [pc |-> "idle"]

NextParse == ParseLine

SpecParse == InitParse /\ [][NextParse]_vars

(* ---------------------------------------------------------------------- *)
(* ContainerContextManager                                                *)
(* ---------------------------------------------------------------------- *)

ContainerIDs == {"A", "B", "C"}

\* docker.Container, told apart by its ID
Container(id) == [ID |-> id]

\* the snapshots of running containers a caller can pass
ContainerLists ==
    UNION {[1..n -> {Container(id) : id \in ContainerIDs}] : n \in 1..MaxContainers}

EmptyMap == [k \in {} |-> 0]

\* GetContainerColors: fifteen times the same orangish white
Colors == [i \in 1..NumColors |-> "orangishWhite"]

\* a context of the manager, as NewContainerContext and Initialize leave it:
\* both goroutines started, not cancelled, channel open, the processor at its
\* select; nothing sent on the channel, appended to the buffer (delivered) or
\* drawn in the view (shown) yet, no error line in the view
NewContainerContext(container, color) ==
    [Container |-> container, Color |-> color, IsSelected |-> FALSE,
     streamStarted |-> TRUE, cancelled |-> FALSE, chClosed |-> FALSE,
     reader |-> "running", cleanupCalls |-> 0,
     proc |-> "select", sent |-> 0, delivered |-> 0, shown |-> 0, errors |-> 0]

\* the error Initialize returns: startLogStreaming returns nil on every path
InitializeErr(container) == FALSE

MapPut(m, k, v) == [x \in (DOMAIN m) \cup {k} |-> IF x = k THEN v ELSE m[x]]

\* the ID put in front of the list instead of behind it
RegisterIDFront(ids, id) == <<id>> \o ids

\* ccm.orderedIDs = append(ccm.orderedIDs, container.ID)
RegisterID(ids, id) == Append(ids, id)

\* the loop of InitializeContexts over the containers, from state st
RECURSIVE InitLoop(_, _)
InitLoop(st, containers) ==
    IF containers = << >> THEN st
    ELSE LET c     == Head(containers)
             color == Colors[(st.colorIndex % NumColors) + 1]
             cx    == NewContainerContext(c, color)
             n     == Len(st.ctxs) + 1
         IN  IF InitializeErr(c)
             THEN [st EXCEPT !.colorIndex = @ + 1, !.err = TRUE]
             ELSE InitLoop([ctxs       |-> Append(st.ctxs, cx),
                            contexts   |-> MapPut(st.contexts, c.ID, n),
                            orderedIDs |-> RegisterID(st.orderedIDs, c.ID),
                            colorIndex |-> st.colorIndex + 1,
                            err        |-> FALSE],
                           Tail(containers))

\* Count
Count == Len(orderedIDs)

\* GetContextByIndex: the context (its creation number), or nil (0)
GetContextByIndex(index) ==
    IF index >= 0 /\ index < Len(orderedIDs)
    THEN LET id == orderedIDs[index + 1]
         IN  IF id \in DOMAIN contexts THEN contexts[id] ELSE 0
    ELSE 0

\* GetAllContexts: the contexts of the ordered IDs that the map still holds
RECURSIVE AllContextsOf(_, _)
AllContextsOf(ids, m) ==
    IF ids = << >> THEN << >>
    ELSE IF Head(ids) \in DOMAIN m
         THEN <<m[Head(ids)]>> \o AllContextsOf(Tail(ids), m)
         ELSE AllContextsOf(Tail(ids), m)

GetAllContexts == AllContextsOf(orderedIDs, contexts)

\* GetContext: the context and whether it exists
GetContext(id) ==
    IF id \in DOMAIN contexts THEN [context |-> contexts[id], exists |-> TRUE]
    ELSE [context |-> 0, exists |-> FALSE]

\* InitializeContexts(containers, ...), under the manager's lock
InitializeContextsOn(containers) ==
    /\ colorIndex + Len(containers) <= MaxContexts
    /\ LET r == InitLoop([ctxs |-> ctxs, contexts |-> contexts,
                          orderedIDs |-> orderedIDs, colorIndex |-> colorIndex,
                          err |-> FALSE], containers)
       IN  /\ ctxs' = r.ctxs
           /\ contexts' = r.contexts
           /\ orderedIDs' = r.orderedIDs
           /\ colorIndex' = r.colorIndex
           /\ mlast' = [op |-> "InitializeContexts", containers |-> containers,
                        wasEmpty |-> (Count = 0 /\ DOMAIN contexts = {}),
                        err |-> r.err]

InitializeContexts ==
    /\ Running
    /\ ccmLock.mu = "none"
    /\ \E containers \in ContainerLists : InitializeContextsOn(containers)
    /\ UNCHANGED ccVars
    /\ UNCHANGED restVars

\* ContainerContext.Cleanup on a context of the manager: cancel, then close
ContextCleanup(cx) ==
    [ctx   |-> [cx EXCEPT !.cancelled = TRUE, !.chClosed = TRUE, !.cleanupCalls = @ + 1],
     panic |-> IF cx.chClosed THEN "close of closed channel" ELSE "none"]

\* the loop of Cleanup over the map, in the order the iteration happens to take
RECURSIVE CleanupLoop(_, _, _)
CleanupLoop(cs, m, order) ==
    IF order = << >> THEN [ctxs |-> cs, panic |-> "none"]
    ELSE LET n == m[Head(order)]
             r == ContextCleanup(cs[n])
         IN  IF r.panic # "none"
             THEN [ctxs |-> [cs EXCEPT ![n] = r.ctx], panic |-> r.panic]
             ELSE CleanupLoop([cs EXCEPT ![n] = r.ctx], m, Tail(order))

\* the orders in which a range over the map can visit its keys
IterationOrders(m) ==
    {o \in [1..Cardinality(DOMAIN m) -> DOMAIN m] :
        \A i, j \in DOMAIN o : i # j => o[i] # o[j]}

\* Cleanup leaving the ordered list as it was
KeptIDs(ids) == ids

\* ccm.orderedIDs = make([]string, 0)
ClearedIDs(ids) == << >>

\* Cleanup: every context of the map is cleaned up, then map and list are replaced
CleanupContexts(opName) ==
    \E order \in IterationOrders(contexts) :
        LET r == CleanupLoop(ctxs, contexts, order)
        IN  /\ ctxs' = r.ctxs
            /\ panicked' = r.panic
            /\ IF r.panic = "none"
               THEN /\ contexts' = EmptyMap
                    /\ orderedIDs' = ClearedIDs(orderedIDs)
               ELSE UNCHANGED <<contexts, orderedIDs>>
            /\ mlast' = [op |-> opName,
                         registered |-> {contexts[id] : id \in DOMAIN contexts}]

ManagerCleanupAs(opName) ==
    /\ Running
    /\ CleanupContexts(opName)
    /\ UNCHANGED colorIndex
    /\ UNCHANGED <<heap, LogBuffer, LogChannel, chClosed, cancelled, streamStarted,
                   readerPc, line, procPc, entry, cleanupPc, cleanups, closes,
                   budget, ended, lineNo, sink, sent, appended, snaps, snapGhost>>
    /\ UNCHANGED restVars

ManagerCleanup == ManagerCleanupAs("Cleanup")

\* Cleanup statement by statement.  ccm.mu.Lock(); the range over the map will
\* visit the contexts in some order
MgrCleanupLock ==
    /\ Running
    /\ ccmLock.mu = "none"
    /\ \E order \in IterationOrders(contexts) :
         ccmLock' = [mu |-> "Cleanup", todo |-> order]
    /\ UNCHANGED ccVars
    /\ UNCHANGED ccmVars
    /\ UNCHANGED <<input, parsed, sdk, app, pipes, loop, selecting, LogView, started, inits,
                   simple, mu, ui>>

\* one turn of the loop of Cleanup: context.Cleanup(), the cancel and the
\* close(cc.LogChannel), with ccm.mu held
MgrCleanupContext ==
    /\ Running
    /\ ccmLock.mu = "Cleanup"
    /\ ccmLock.todo # << >>
    /\ LET n == contexts[Head(ccmLock.todo)]
           r == ContextCleanup(ctxs[n])
       IN  /\ ctxs' = [ctxs EXCEPT ![n] = r.ctx]
           /\ panicked' = r.panic
    /\ ccmLock' = [ccmLock EXCEPT !.todo = Tail(@)]
    /\ UNCHANGED <<contexts, orderedIDs, colorIndex, mlast>>
    /\ UNCHANGED ccButPanicked
    /\ UNCHANGED <<input, parsed, sdk, app, pipes, loop, selecting, LogView, started, inits,
                   simple, mu, ui>>

\* after the loop: map and list are replaced, and the deferred ccm.mu.Unlock()
MgrCleanupUnlock ==
    /\ Running
    /\ ccmLock.mu = "Cleanup"
    /\ ccmLock.todo = << >>
    /\ contexts' = EmptyMap
    /\ orderedIDs' = ClearedIDs(orderedIDs)
    /\ ccmLock' = NoCcmLock
    /\ UNCHANGED <<ctxs, colorIndex, mlast>>
    /\ UNCHANGED ccVars
    /\ UNCHANGED <<input, parsed, sdk, app, pipes, loop, selecting, LogView, started, inits,
                   simple, mu, ui>>

\* StopAll: an alias of Cleanup
StopAll == ManagerCleanupAs("StopAll")

\* the reader goroutine of a context of the manager returns (its stream ended,
\* or it saw the cancellation) and runs its deferred close(logCh)
ContextReaderExit ==
    /\ Running
    /\ \E n \in 1..Len(ctxs) :
         /\ ctxs[n].reader = "running"
         /\ IF ctxs[n].chClosed
            THEN /\ panicked' = "close of closed channel"
                 /\ UNCHANGED ctxs
            ELSE /\ ctxs' = [ctxs EXCEPT ![n].reader = "done", ![n].chClosed = TRUE]
                 /\ UNCHANGED panicked
    /\ UNCHANGED <<contexts, orderedIDs, colorIndex, mlast>>
    /\ UNCHANGED <<heap, LogBuffer, LogChannel, chClosed, cancelled, streamStarted,
                   readerPc, line, procPc, entry, cleanupPc, cleanups, closes,
                   budget, ended, lineNo, sink, sent, appended, snaps, snapGhost>>
    /\ UNCHANGED restVars

\* the read operations, each under the manager's read lock
ReadCount ==
    /\ Running
    /\ mlast' = [op |-> "Count", result |-> Count]
    /\ UNCHANGED <<ctxs, contexts, orderedIDs, colorIndex>>
    /\ UNCHANGED ccVars
    /\ UNCHANGED restVars

ReadContextByIndex ==
    /\ Running
    /\ \E index \in -1..MaxContexts :
         mlast' = [op |-> "GetContextByIndex", index |-> index,
                   result |-> GetContextByIndex(index)]
    /\ UNCHANGED <<ctxs, contexts, orderedIDs, colorIndex>>
    /\ UNCHANGED ccVars
    /\ UNCHANGED restVars

ReadAllContexts ==
    /\ Running
    /\ mlast' = [op |-> "GetAllContexts", result |-> GetAllContexts]
    /\ UNCHANGED <<ctxs, contexts, orderedIDs, colorIndex>>
    /\ UNCHANGED ccVars
    /\ UNCHANGED restVars

ReadContext ==
    /\ Running
    /\ \E id \in ContainerIDs :
         mlast' = [op |-> "GetContext", id |-> id, result |-> GetContext(id)]
    /\ UNCHANGED <<ctxs, contexts, orderedIDs, colorIndex>>
    /\ UNCHANGED ccVars
    /\ UNCHANGED restVars

\* GetContextByIndex taking an index out of range for the nearest one in range
GetContextByIndexClamped(index) ==
    IF Len(orderedIDs) = 0 THEN 0
    ELSE LET i  == IF index < 0 THEN 0
                   ELSE IF index >= Len(orderedIDs) THEN Len(orderedIDs) - 1
                   ELSE index
             id == orderedIDs[i + 1]
         IN  IF id \in DOMAIN contexts THEN contexts[id] ELSE 0

\* the context SetSelected looks up: ccm.GetContextByIndex(index)
SelectedContext(index) == GetContextByIndex(index)

\* ContainerContext.SetSelected: the flag, which the border colour follows
ContextSetSelected(cx, selected) == [cx EXCEPT !.IsSelected = selected]

\* SetSelected, its first statement: context := ccm.GetContextByIndex(index),
\* which takes the manager's read lock and gives it back before it returns
SetSelectedLookup ==
    /\ Running
    /\ ccmLock.mu = "none"
    /\ selecting.pc = "idle"
    /\ \E index \in -1..MaxContexts, selected \in BOOLEAN :
         selecting' = [pc |-> "looked", index |-> index, selected |-> selected,
                       context |-> SelectedContext(index)]
    /\ UNCHANGED ccmVars
    /\ UNCHANGED ccVars
    /\ UNCHANGED <<input, parsed, sdk, app, LogView, started, inits, simple, mu, ui,
                   ccmLock, pipes, loop>>

\* SetSelected, the rest: with no lock held the context that was looked up,
\* if there was one, takes the flag, whatever the manager holds by now
SetSelectedWrite ==
    /\ Running
    /\ selecting.pc = "looked"
    /\ ctxs' = IF selecting.context # 0
               THEN [ctxs EXCEPT ![selecting.context] =
                                     ContextSetSelected(@, selecting.selected)]
               ELSE ctxs
    /\ mlast' = [op |-> "SetSelected", index |-> selecting.index,
                 selected |-> selecting.selected]
    /\ selecting' = NoSelecting
    /\ UNCHANGED <<contexts, orderedIDs, colorIndex>>
    /\ UNCHANGED ccVars
    /\ UNCHANGED <<input, parsed, sdk, app, LogView, started, inits, simple, mu, ui,
                   ccmLock, pipes, loop>>

\* a call of SetSelected, statement by statement
SetSelected == SetSelectedLookup \/ SetSelectedWrite

\* the manager as NewContainerContextManager returns it; no single context is
\* followed at the grain of its goroutines
InitMgr ==
    /\ InitContext
    /\ budget = 0
    /\ NoRest
    /\ ctxs = << >>
    /\ contexts = EmptyMap
    /\ orderedIDs = << >>
    /\ colorIndex = 0
    /\ mlast = [op |-> "none"]

NextMgr ==
    \/ InitializeContexts
    \/ ManagerCleanup
    \/ StopAll
    \/ ContextReaderExit
    \/ ReadCount
    \/ ReadContextByIndex
    \/ ReadAllContexts
    \/ ReadContext

SpecMgr == InitMgr /\ [][NextMgr]_vars

\* the manager with Cleanup taken statement by statement, beside the readers
\* of its contexts
NextMgrLock ==
    \/ InitializeContexts
    \/ MgrCleanupLock
    \/ MgrCleanupContext
    \/ MgrCleanupUnlock
    \/ ContextReaderExit

SpecMgrLock == InitMgr /\ [][NextMgrLock]_vars

\* contexts created in a run of the selection
MaxSelContexts == 2

\* InitializeContexts in a run of the selection
SelInitializeContexts ==
    /\ Running
    /\ ccmLock.mu = "none"
    /\ \E containers \in ContainerLists :
         /\ Len(ctxs) + Len(containers) <= MaxSelContexts
         /\ InitializeContextsOn(containers)
    /\ UNCHANGED ccVars
    /\ UNCHANGED restVars

\* the manager under calls of SetSelected from one goroutine while another
\* initializes contexts and cleans up
NextSel ==
    \/ SelInitializeContexts
    \/ ManagerCleanup
    \/ SetSelectedLookup
    \/ SetSelectedWrite

SpecSel == InitMgr /\ [][NextSel]_vars

(* ---------------------------------------------------------------------- *)
(* The application: App.Run and its quit paths                            *)
(* ---------------------------------------------------------------------- *)

\* the App as NewApp returns it: Run not yet called, a.ctx not cancelled, the
\* first container focused, not in fullscreen mode; err is the error Run has
\* returned or is about to return
NewApp == [pc |-> "start", cancelled |-> FALSE, quit |-> "none", cleanups |-> 0,
           selectedContainer |-> 0, isFullscreen |-> FALSE, err |-> "none"]

\* the loop of focusContainer over GetAllContexts(): context.SetSelected(i == index),
\* i counting from 0
RECURSIVE FocusLoop(_, _, _, _)
FocusLoop(cs, all, i, index) ==
    IF all = << >> THEN cs
    ELSE FocusLoop([cs EXCEPT ![Head(all)] = ContextSetSelected(@, i = index)],
                   Tail(all), i + 1, index)

\* focusContainer(index) on the contexts cs of a manager with list ids and map
\* m: nothing for an index out of range, else every context of
\* GetAllContexts() is selected or deselected
focusContainer(cs, ids, m, index) ==
    IF index < 0 \/ index >= Len(ids) THEN cs
    ELSE FocusLoop(cs, AllContextsOf(ids, m), 0, index)

\* setupGrid: nothing when the manager is empty, else the views are laid out
\* and the first container takes the focus
setupGrid(cs, ids, m) ==
    IF Len(ids) = 0 THEN cs ELSE focusContainer(cs, ids, m, 0)

\* the index refreshContainers leaves in a.selectedContainer for n containers
AdjustSelected(sel, n) ==
    LET s1 == IF sel >= n THEN n - 1 ELSE sel
    IN  IF s1 < 0 THEN 0 ELSE s1

\* the errors Run returns before it has initialized anything: NewDockerService
\* fails, ListRunningContainers fails, or no container is running
EarlyErrors == {"connect", "list", "no running containers"}

\* the aux variables but the event loop
auxButLoop == <<LogView, started, inits, simple, mu, ui, ccmLock, selecting, pipes>>

\* Run up to the point where it waits or returns.  It returns an error, with
\* nothing initialized and no Cleanup deferred, when the connection or the
\* listing fails or the list is empty.  Else the contexts of the containers
\* listed are initialized and the UI set up; without a TTY Run goes into
\* runSimpleMode; with one the Cleanup of the manager is deferred and
\* a.app.Run() either starts the event loop or returns an error at once (the
\* screen cannot be set up), which Run is then about to return
AppRun ==
    /\ Running
    /\ app.pc = "start"
    /\ \/ /\ \E e \in EarlyErrors : app' = [app EXCEPT !.pc = "exited", !.err = e]
          /\ UNCHANGED ccmVars
       \/ /\ \E containers \in ContainerLists :
               /\ colorIndex + Len(containers) <= MaxContexts
               /\ LET r == InitLoop([ctxs |-> ctxs, contexts |-> contexts,
                                     orderedIDs |-> orderedIDs, colorIndex |-> colorIndex,
                                     err |-> FALSE], containers)
                  IN  /\ ctxs' = setupGrid(r.ctxs, r.orderedIDs, r.contexts)
                      /\ contexts' = r.contexts
                      /\ orderedIDs' = r.orderedIDs
                      /\ colorIndex' = r.colorIndex
                      /\ mlast' = [op |-> "InitializeContexts", containers |-> containers,
                                   wasEmpty |-> (Count = 0 /\ DOMAIN contexts = {}),
                                   err |-> r.err]
          /\ \E isTTY \in BOOLEAN, screen \in BOOLEAN :
               app' = IF ~isTTY THEN [app EXCEPT !.pc = "simple"]
                      ELSE IF screen THEN [app EXCEPT !.pc = "tui"]
                      ELSE [app EXCEPT !.pc = "stopped", !.err = "tui"]
    /\ UNCHANGED ccVars
    /\ UNCHANGED <<input, parsed, sdk, auxVars>>

\* the input capture of setupKeyBindings, which the event loop runs, on q, Q
\* and Ctrl+C: a.cancel() and a.app.Stop()
AppQuitKey ==
    /\ Running
    /\ app.pc = "tui"
    /\ loop.pc = "select"
    /\ \E key \in {"q", "Ctrl+C"} :
         app' = [app EXCEPT !.pc = "stopped", !.cancelled = TRUE, !.quit = key]
    /\ UNCHANGED <<ccVars, ccmVars>>
    /\ UNCHANGED <<input, parsed, sdk, auxVars>>

\* a.app.Run() has returned, after Stop or with its error, and Run returns
\* through its deferred a.contextManager.Cleanup()
AppRunReturns ==
    /\ Running
    /\ app.pc = "stopped"
    /\ CleanupContexts("Cleanup")
    /\ app' = [app EXCEPT !.pc = "exited", !.cleanups = @ + 1]
    /\ UNCHANGED colorIndex
    /\ UNCHANGED ccButPanicked
    /\ UNCHANGED <<input, parsed, sdk, auxVars>>

\* the select of runSimpleMode: a signal arrives and a.cancel() is called, or
\* a.ctx is done; runSimpleMode returns nil and Run returns what it returned
AppSimpleReturns ==
    /\ Running
    /\ app.pc = "simple"
    /\ \/ app' = [app EXCEPT !.pc = "exited", !.cancelled = TRUE, !.quit = "signal"]
       \/ /\ app.cancelled
          /\ app' = [app EXCEPT !.pc = "exited", !.quit = "cancellation"]
    /\ UNCHANGED <<ccVars, ccmVars>>
    /\ UNCHANGED <<input, parsed, sdk, auxVars>>

\* refreshContainers: its goroutine lists the containers and queues an update,
\* which the event loop runs.  When the listing fails the update calls
\* showHelpMessage, and so QueueUpdateDraw, on the event loop, which from
\* then on waits for an update only it could run.  Else the update is StopAll
\* on the contexts held, then, for an empty list, showHelpMessage with the
\* same end, and for any other InitializeContexts on the containers listed,
\* the focused index brought into range, setupGrid and focusContainer on that
\* index.  The calls of refreshContainers in restartFocusedContainer and
\* killFocusedContainer follow a showHelpMessage in an update of the event
\* loop; the step is the function called with the loop at its select.
AppRefreshContainers ==
    /\ Running
    /\ app.pc = "tui"
    /\ loop.pc = "select"
    /\ ccmLock.mu = "none"
    /\ \/ /\ loop' = [loop EXCEPT !.pc = "blocked", !.queue = Append(@, "loop")]
          /\ UNCHANGED <<ccmVars, app, panicked>>
       \/ \E containers \in ContainerLists \cup {<< >>}, order \in IterationOrders(contexts) :
            /\ colorIndex + Len(containers) <= MaxContexts
            /\ LET c == CleanupLoop(ctxs, contexts, order)
                   r == InitLoop([ctxs       |-> c.ctxs,
                                  contexts   |-> EmptyMap,
                                  orderedIDs |-> ClearedIDs(orderedIDs),
                                  colorIndex |-> colorIndex,
                                  err        |-> FALSE], containers)
                   sel == IF containers = << >> THEN app.selectedContainer
                          ELSE AdjustSelected(app.selectedContainer, Len(containers))
               IN  /\ panicked' = c.panic
                   /\ IF c.panic # "none"
                      THEN /\ ctxs' = c.ctxs
                           /\ UNCHANGED <<contexts, orderedIDs, colorIndex, app, loop>>
                      ELSE /\ ctxs' = IF containers = << >> THEN r.ctxs
                                      ELSE focusContainer(
                                               setupGrid(r.ctxs, r.orderedIDs, r.contexts),
                                               r.orderedIDs, r.contexts, sel)
                           /\ contexts' = r.contexts
                           /\ orderedIDs' = r.orderedIDs
                           /\ colorIndex' = r.colorIndex
                           /\ app' = [app EXCEPT !.selectedContainer = sel]
                           /\ loop' = IF containers = << >>
                                      THEN [loop EXCEPT !.pc = "blocked",
                                                        !.queue = Append(@, "loop")]
                                      ELSE loop
                   /\ mlast' = [op |-> "refreshContainers", containers |-> containers,
                                previous |-> {contexts[id] : id \in DOMAIN contexts},
                                created |-> Len(ctxs)]
    /\ UNCHANGED ccButPanicked
    /\ UNCHANGED <<input, parsed, sdk, auxButLoop>>

\* navigateDown has something to do: the manager holds contexts and the focus
\* is not on the last
CanNavigateDown == Count # 0 /\ app.selectedContainer < Count - 1

\* key k: navigateUp moves the focus one container up, unless the manager is
\* empty or the first container has it
navigateUp ==
    /\ Running
    /\ app.pc = "tui"
    /\ loop.pc = "select"
    /\ Count # 0
    /\ app.selectedContainer > 0
    /\ app' = [app EXCEPT !.selectedContainer = @ - 1]
    /\ ctxs' = focusContainer(ctxs, orderedIDs, contexts, app.selectedContainer - 1)
    /\ UNCHANGED <<contexts, orderedIDs, colorIndex, mlast>>
    /\ UNCHANGED ccVars
    /\ UNCHANGED <<input, parsed, sdk, auxVars>>

\* key j: navigateDown moves the focus one container down, unless the manager
\* is empty or the last container has it
navigateDown ==
    /\ Running
    /\ app.pc = "tui"
    /\ loop.pc = "select"
    /\ CanNavigateDown
    /\ app' = [app EXCEPT !.selectedContainer = @ + 1]
    /\ ctxs' = focusContainer(ctxs, orderedIDs, contexts, app.selectedContainer + 1)
    /\ UNCHANGED <<contexts, orderedIDs, colorIndex, mlast>>
    /\ UNCHANGED ccVars
    /\ UNCHANGED <<input, parsed, sdk, auxVars>>

\* the space key: toggleFullscreen flips the mode and, leaving fullscreen,
\* gives the focus back to the selected container
toggleFullscreen ==
    /\ Running
    /\ app.pc = "tui"
    /\ loop.pc = "select"
    /\ Count # 0
    /\ app' = [app EXCEPT !.isFullscreen = ~@]
    /\ ctxs' = IF app.isFullscreen
               THEN focusContainer(ctxs, orderedIDs, contexts, app.selectedContainer)
               ELSE ctxs
    /\ UNCHANGED <<contexts, orderedIDs, colorIndex, mlast>>
    /\ UNCHANGED ccVars
    /\ UNCHANGED <<input, parsed, sdk, auxVars>>

InitApp ==
    /\ InitContext
    /\ budget = 0
    /\ ctxs = << >>
    /\ contexts = EmptyMap
    /\ orderedIDs = << >>
    /\ colorIndex = 0
    /\ mlast = [op |-> "none"]
    /\ input = NoInput
    /\ parsed = NotParsed
    /\ sdk = [pc |-> "idle"]
    /\ app = NewApp

NextApp ==
    \/ AppRun
    \/ AppQuitKey
    \/ AppRunReturns
    \/ AppSimpleReturns
    \/ AppRefreshContainers
    \/ ContextReaderExit

SpecApp == InitApp /\ [][NextApp]_vars

\* the rest of the application and of the contexts, which the event loop's
\* keys and updates leave alone here
loopRest == <<ccVars, ccmVars, input, parsed, sdk, app,
              LogView, started, inits, simple, mu, ui, ccmLock, selecting, pipes>>

\* key presses in a run of the event loop
MaxKeys == 3

\* the keys pressed: navigateDown, exportLogsForLLM, restartFocusedContainer,
\* killFocusedContainer
LoopKeys == {"j", "y", "r", "x"}

\* the handler of the key calls a.showHelpMessage itself, on the event loop:
\* restartFocusedContainer and killFocusedContainer do on each of their paths
CallsShowHelp(key) == key \in {"r", "x"}

\* the user presses a key: the event waits for the loop
KeyPress ==
    /\ Running
    /\ app.pc = "tui"
    /\ loop.pressed < MaxKeys
    /\ \E key \in LoopKeys :
         loop' = [loop EXCEPT !.keys = Append(@, key), !.pressed = @ + 1]
    /\ UNCHANGED loopRest

\* the event loop takes a key event and runs the input capture.  A handler
\* that calls showHelpMessage enters a.app.QueueUpdateDraw there and waits
\* for its update to have run; exportLogsForLLM starts its goroutine and
\* returns; navigateDown moves the focus one container down, if it can, and
\* returns
LoopKey ==
    /\ Running
    /\ app.pc = "tui"
    /\ loop.pc = "select"
    /\ loop.keys # << >>
    /\ LET key == Head(loop.keys)
       IN  /\ loop' = IF CallsShowHelp(key)
                      THEN [loop EXCEPT !.keys = Tail(@), !.pc = "blocked",
                                        !.queue = Append(@, "loop")]
                      ELSE IF key = "y"
                      THEN [loop EXCEPT !.keys = Tail(@), !.handled = @ + 1,
                                        !.exports = @ + 1]
                      ELSE [loop EXCEPT !.keys = Tail(@), !.handled = @ + 1]
           /\ IF key = "j" /\ CanNavigateDown
              THEN /\ app' = [app EXCEPT !.selectedContainer = @ + 1]
                   /\ ctxs' = focusContainer(ctxs, orderedIDs, contexts,
                                             app.selectedContainer + 1)
              ELSE UNCHANGED <<app, ctxs>>
    /\ UNCHANGED <<contexts, orderedIDs, colorIndex, mlast>>
    /\ UNCHANGED ccVars
    /\ UNCHANGED <<input, parsed, sdk, auxButLoop>>

\* the goroutine of exportLogsForLLM calls a.showHelpMessage: it enters
\* QueueUpdateDraw and waits
ExportShowHelp ==
    /\ Running
    /\ loop.exports > 0
    /\ loop' = [loop EXCEPT !.exports = @ - 1, !.exportsWaiting = @ + 1,
                            !.queue = Append(@, "export")]
    /\ UNCHANGED loopRest

\* the event loop runs the next queued update (a.updateHelpBar) and lets its
\* submitter go on: showHelpMessage starts its timer goroutine and returns
\* to the export or to the key handler, a timer goroutine ends
LoopUpdate ==
    /\ Running
    /\ app.pc = "tui"
    /\ loop.pc = "select"
    /\ loop.queue # << >>
    /\ LET by == Head(loop.queue)
       IN  loop' = IF by = "export"
                   THEN [loop EXCEPT !.queue = Tail(@), !.exportsWaiting = @ - 1,
                                     !.timers = @ + 1]
                   ELSE IF by = "timer"
                   THEN [loop EXCEPT !.queue = Tail(@), !.timersWaiting = @ - 1]
                   ELSE [loop EXCEPT !.queue = Tail(@), !.timers = @ + 1,
                                     !.handled = @ + 1]
    /\ UNCHANGED loopRest

\* the timer goroutine of showHelpMessage: the sleep is over, it clears the
\* text, enters QueueUpdateDraw and waits
TimerFire ==
    /\ Running
    /\ loop.timers > 0
    /\ loop' = [loop EXCEPT !.timers = @ - 1, !.timersWaiting = @ + 1,
                            !.queue = Append(@, "timer")]
    /\ UNCHANGED loopRest

\* the event loop of the TUI under key presses, with the goroutines that
\* queue updates
NextLoop ==
    \/ AppRun
    \/ KeyPress
    \/ LoopKey
    \/ ExportShowHelp
    \/ LoopUpdate
    \/ TimerFire

SpecLoop == InitApp /\ [][NextLoop]_vars

\* the TUI under the keys of the navigation, the fullscreen toggle and the
\* refreshes, while the streams of its containers end
NextFocus ==
    \/ AppRun
    \/ navigateUp
    \/ navigateDown
    \/ toggleFullscreen
    \/ AppRefreshContainers
    \/ ContextReaderExit

SpecFocus == InitApp /\ [][NextFocus]_vars

(* ---------------------------------------------------------------------- *)
(* The streams of the manager's contexts                                  *)
(* ---------------------------------------------------------------------- *)

\* lines the streams of the contexts produce in a run, all together
MaxDelivered == 2

\* an error line written to the view of the first context, whoever failed
ErrorViewFirst(n) == 1

\* the view the error line of context n is written to: cc.AppendLog, its own
ErrorView(n) == n

\* the lines the readers of the contexts cs have sent, all together
RECURSIVE SentTotal(_)
SentTotal(cs) == IF cs = << >> THEN 0 ELSE Head(cs).sent + SentTotal(Tail(cs))

\* what the stream actions leave alone
streamRest == <<input, parsed, sdk, app, auxButLoop>>

\* the goroutine of startLogStreaming of a context of the manager, when
\* StreamLogs returns an error (the docker process did not start, so no line
\* was read): it calls cc.AppendLog with the error line, which queues the
\* update for the event loop and waits for it
ContextStreamFails(n) ==
    /\ Running
    /\ ctxs[n].reader = "running"
    /\ ctxs[n].sent = 0
    /\ ctxs' = [ctxs EXCEPT ![n].reader = "failing"]
    /\ loop' = [loop EXCEPT !.queue = Append(@, [cx |-> n, view |-> ErrorView(n),
                                                 what |-> "error"])]
    /\ UNCHANGED <<contexts, orderedIDs, colorIndex, mlast>>
    /\ UNCHANGED ccVars
    /\ UNCHANGED streamRest

\* the reader of context n can send: its stream is open and has a line, and
\* the channel has room
ContextCanSend(cs, n) ==
    /\ cs[n].reader = "running"
    /\ SentTotal(cs) < MaxDelivered
    /\ cs[n].sent - cs[n].delivered < ChanCap

\* the reader of a context of the manager: Scan gives a line, parseLogEntry
\* an entry, and the entry is sent on the channel; on a channel that Cleanup
\* has closed the send panics
ContextSend(n) ==
    /\ Running
    /\ ContextCanSend(ctxs, n)
    /\ IF ctxs[n].chClosed
       THEN /\ panicked' = "send on closed channel"
            /\ UNCHANGED ctxs
       ELSE /\ ctxs' = [ctxs EXCEPT ![n].sent = @ + 1]
            /\ UNCHANGED panicked
    /\ UNCHANGED <<contexts, orderedIDs, colorIndex, mlast>>
    /\ UNCHANGED ccButPanicked
    /\ UNCHANGED <<restVars>>

\* the processor of context n can receive: it is at its select and the
\* channel holds an entry
ContextCanProcess(cs, n) ==
    /\ cs[n].proc = "select"
    /\ cs[n].sent > cs[n].delivered

\* processLogs of a context of the manager: it receives an entry, appends it
\* to the buffer under cc.mu and calls AppendLog, which queues the update for
\* the event loop and waits for it.  The select can take the entry also when
\* cc.ctx is done.
ContextProcess(n) ==
    /\ Running
    /\ ContextCanProcess(ctxs, n)
    /\ ctxs' = [ctxs EXCEPT ![n].delivered = @ + 1, ![n].proc = "queued"]
    /\ loop' = [loop EXCEPT !.queue = Append(@, [cx |-> n, view |-> n, what |-> "entry"])]
    /\ UNCHANGED <<contexts, orderedIDs, colorIndex, mlast>>
    /\ UNCHANGED ccVars
    /\ UNCHANGED streamRest

\* the event loop runs the update at the head of the queue, writing its line
\* to the view it was queued for, and QueueUpdateDraw returns to the goroutine
\* that waited: the processor goes back to its select, the goroutine of
\* startLogStreaming ends
ContextDraw ==
    /\ Running
    /\ app.pc = "tui"
    /\ loop.pc = "select"
    /\ loop.queue # << >>
    /\ LET u == Head(loop.queue)
       IN  ctxs' = IF u.what = "error"
                   THEN [[ctxs EXCEPT ![u.view].errors = @ + 1]
                               EXCEPT ![u.cx].reader = "failed"]
                   ELSE [[ctxs EXCEPT ![u.view].shown = @ + 1]
                               EXCEPT ![u.cx].proc = "select"]
    /\ loop' = [loop EXCEPT !.queue = Tail(@)]
    /\ UNCHANGED <<contexts, orderedIDs, colorIndex, mlast>>
    /\ UNCHANGED ccVars
    /\ UNCHANGED streamRest

ContextFails == \E n \in 1..Len(ctxs) : ContextStreamFails(n)

ContextSends == \E n \in 1..Len(ctxs) : ContextSend(n)

ContextProcesses == \E n \in 1..Len(ctxs) : ContextProcess(n)

\* the contexts Run has initialized while their streams open, fail and
\* deliver, with the event loop (in TUI mode) or without it (in simple mode,
\* or when Run has returned)
NextStreams ==
    \/ AppRun
    \/ ContextFails
    \/ ContextSends
    \/ ContextProcesses
    \/ ContextDraw

SpecStreams == InitApp /\ [][NextStreams]_vars

(* ---------------------------------------------------------------------- *)
(* One context in simple mode                                             *)
(* ---------------------------------------------------------------------- *)

\* streamContainerLogsSimple: the select on a.ctx.Done() and the receive from
\* context.LogChannel; an entry received is printed
SimpleSelect ==
    /\ Running
    /\ simple.pc = "select"
    /\ \/ /\ app.cancelled
          /\ simple' = [simple EXCEPT !.pc = "done"]
          /\ UNCHANGED LogChannel
       \/ /\ Len(LogChannel) > 0
          /\ simple' = [simple EXCEPT !.printed = Append(@, RecvEntry(LogChannel))]
          /\ LogChannel' = RecvRest(LogChannel)
       \/ /\ Len(LogChannel) = 0
          /\ chClosed
          /\ simple' = [simple EXCEPT !.pc = "done"]
          /\ UNCHANGED LogChannel
    /\ UNCHANGED <<heap, LogBuffer, chClosed, cancelled, streamStarted,
                   readerPc, line, procPc, entry, cleanupPc, cleanups, closes,
                   panicked, budget, ended, lineNo, sink, sent, appended, snaps,
                   snapGhost>>
    /\ UNCHANGED <<ccmVars, input, parsed, sdk, app, pipes, loop, ccmLock, selecting, LogView, started, inits, mu, ui>>

\* Run has initialized the context, setupGrid has focused it as the first of
\* the grid (focusContainer(0): selected, border in orange), Run has found no
\* TTY and gone into runSimpleMode, which has started
\* streamContainerLogsSimple on the context
InitSimple ==
    /\ heap = NewHeap
    /\ LogBuffer = NewLogBuffer
    /\ LogChannel = << >>
    /\ chClosed = FALSE
    /\ cancelled = FALSE
    /\ streamStarted = TRUE
    /\ readerPc = "open"
    /\ line = NoLine
    /\ procPc = "select"
    /\ entry = ZeroEntry
    /\ cleanupPc = "idle"
    /\ cleanups = 0
    /\ closes = << >>
    /\ panicked = "none"
    /\ ended = FALSE
    /\ lineNo = 0
    /\ sink = << >>
    /\ sent = << >>
    /\ appended = << >>
    /\ snaps = NoSnaps
    /\ snapGhost = [c \in Callers |-> << >>]
    /\ LogView = 1
    /\ started = [StreamLogs |-> 1, processLogs |-> 1]
    /\ inits = [calls |-> 1, err |-> FALSE]
    /\ simple = [pc |-> "select", printed |-> << >>]
    /\ mu = NoLock
    /\ ui = SetSelectedBorder(SetSelectedFlag(NewView, 1, EventLoop, TRUE), 1, EventLoop)
    /\ ccmLock = NoCcmLock
    /\ selecting = NoSelecting
    /\ pipes = NoPipes
    /\ loop = NewLoop
    /\ budget = SimpleLines
    /\ ctxs = << >>
    /\ contexts = << >>
    /\ orderedIDs = << >>
    /\ colorIndex = 0
    /\ mlast = [op |-> "none"]
    /\ input = NoInput
    /\ parsed = NotParsed
    /\ sdk = [pc |-> "idle"]
    /\ app = [NewApp EXCEPT !.pc = "simple"]

\* the tasks of simple mode on one context; Cleanup is not among them, Run
\* does not call it in simple mode
NextSimple ==
    \/ StreamLogsOpen
    \/ ScanLine
    \/ ScanEnd
    \/ ReaderCheck
    \/ ReaderSend
    \/ ReaderExit
    \/ ProcSelect
    \/ ProcAppend
    \/ ProcAppendLog
    \/ SimpleSelect
    \/ AppSimpleReturns

SpecSimple == InitSimple /\ [][NextSimple]_vars

(* ---------------------------------------------------------------------- *)
(* The SDK: Colog.GetContainerLogs                                        *)
(* ---------------------------------------------------------------------- *)

\* make(chan docker.LogEntry, 1000)
SdkChanCap == 1000

\* entries the container's stream carries during one call
MaxStream == 3

\* the timestamps of entries, Since and Until are among 1..MaxTime
MaxTime == 2

\* the largest Tail asked for
MaxTail == 2

\* the streams: the timestamps of their entries, in the order of the lines
Streams == UNION {[1..n -> 1..MaxTime] : n \in 0..MaxStream}

\* LogOptions; 0 for Since and Until is the zero time
LogOptionsSet ==
    [Follow : BOOLEAN, Tail : 0..MaxTail, Since : 0..MaxTime, Until : 0..MaxTime]

\* a filter that lets every entry through
PassesAll(e, options) == TRUE

\* the filters of GetContainerLogs: an entry before Since or after Until is skipped
Passes(e, options) ==
    /\ ~(options.Since # 0 /\ e.Timestamp < options.Since)
    /\ ~(options.Until # 0 /\ e.Timestamp > options.Until)

\* GetContainerLogs calls StreamLogs: the reader goroutine starts, or the call
\* returns the error
SdkStreamLogs ==
    /\ sdk.pc = "start"
    /\ \/ sdk' = [sdk EXCEPT !.pc = "collect"]
       \/ sdk' = [sdk EXCEPT !.pc = "returned", !.err = TRUE]
    /\ UNCHANGED <<ccVars, ccmVars>>
    /\ UNCHANGED <<input, parsed, app, auxVars>>

\* the reader goroutine of StreamLogs sends the next entry of the stream
SdkReaderSend ==
    /\ sdk.pc = "collect"
    /\ sdk.stream # << >>
    /\ Len(sdk.logCh) < SdkChanCap
    /\ LET e == [n |-> Len(sdk.sent) + 1, Timestamp |-> Head(sdk.stream)]
       IN  sdk' = [sdk EXCEPT !.stream = Tail(@),
                              !.logCh  = Append(@, e),
                              !.sent   = Append(@, e)]
    /\ UNCHANGED <<ccVars, ccmVars>>
    /\ UNCHANGED <<input, parsed, app, auxVars>>

\* the stream ends: the reader goroutine returns and closes the channel
SdkReaderEnd ==
    /\ sdk.pc = "collect"
    /\ sdk.stream = << >>
    /\ ~sdk.closed
    /\ sdk' = [sdk EXCEPT !.closed = TRUE]
    /\ UNCHANGED <<ccVars, ccmVars>>
    /\ UNCHANGED <<input, parsed, app, auxVars>>

\* the receive of the collecting loop: filter, append, and the return on Tail
SdkReceive ==
    /\ sdk.pc = "collect"
    /\ sdk.logCh # << >>
    /\ LET e    == Head(sdk.logCh)
           o    == sdk.options
           logs == IF Passes(e, o) THEN Append(sdk.logs, e) ELSE sdk.logs
           full == Passes(e, o) /\ ~o.Follow /\ o.Tail > 0 /\ Len(logs) >= o.Tail
       IN  sdk' = [sdk EXCEPT
                     !.logCh  = Tail(@),
                     !.logs   = IF full /\ Len(logs) > o.Tail
                                THEN SubSeq(logs, Len(logs) - o.Tail + 1, Len(logs))
                                ELSE logs,
                     !.pc     = IF full THEN "returned" ELSE "collect",
                     !.atExit = IF full THEN sdk.sent ELSE @]
    /\ UNCHANGED <<ccVars, ccmVars>>
    /\ UNCHANGED <<input, parsed, app, auxVars>>

\* the loop's other ways out: the channel is closed and empty, or ctx is done
\* (the 30 seconds of a call without Follow are over, or the SDK was closed)
SdkReturn ==
    /\ sdk.pc = "collect"
    /\ \/ sdk.logCh = << >> /\ sdk.closed
       \/ TRUE
    /\ sdk' = [sdk EXCEPT !.pc = "returned", !.atExit = sdk.sent]
    /\ UNCHANGED <<ccVars, ccmVars>>
    /\ UNCHANGED <<input, parsed, app, auxVars>>

\* a call of GetContainerLogs about to start, for a stream and options
InitSdk ==
    /\ InitContext
    /\ budget = 0
    /\ ctxs = << >> /\ contexts = << >> /\ orderedIDs = << >>
    /\ colorIndex = 0 /\ mlast = [op |-> "none"]
    /\ input = NoInput
    /\ parsed = NotParsed
    /\ app = [pc |-> "idle"]
    /\ \E st \in Streams, o \in LogOptionsSet :
         sdk = [pc |-> "start", options |-> o, stream |-> st, logCh |-> << >>,
                sent |-> << >>, closed |-> FALSE, logs |-> << >>,
                atExit |-> << >>, err |-> FALSE]

NextSdk ==
    \/ SdkStreamLogs
    \/ SdkReaderSend
    \/ SdkReaderEnd
    \/ SdkReceive
    \/ SdkReturn

SpecSdk == InitSdk /\ [][NextSdk]_vars

(* ---------------------------------------------------------------------- *)
(* Two contexts side by side                                              *)
(* ---------------------------------------------------------------------- *)

\* lines the stream of the first context of the pair can still produce
PairLines == 1

\* lines the stream of the second context of the pair can produce
PairOtherLines == 1

\* the contexts of the pair, by creation number
Pair == {1, 2}

\* entries the channel of the first context holds when the pair is taken up:
\* it is full
PairPrefill == ChanCap

\* one lock serving every context
MuShared(n) == 1

\* the lock of context n: the field cc.mu of its own ContainerContext
MuOf(n) == n

\* GetAllContexts returns through its deferred ccm.mu.RUnlock()
ListedUnlocks(lock) == NoCcmLock

\* the pair with c as the state of context n
WithCx(n, c) == [pipes EXCEPT !.cx[n] = c]

\* what every step of the pair leaves alone
pairRest == <<ccVars, ccmVars, input, parsed, sdk, app,
              LogView, started, inits, simple, mu, ui, selecting, loop>>

\* the event loop has run the update that AppendLog of context n queued: the
\* queue of the application, which the contexts share, no longer holds it
PairUpdateRun(p, n) == \A i \in 1..Len(p.updates) : p.updates[i] # n

\* the reader of context n can take a step: scanner.Scan() returns (a line or
\* the end of the stream), or the send on its channel has room
ReaderCan(p, n) ==
    \/ p.cx[n].reader = "scan"
    \/ p.cx[n].reader = "send" /\ CanSend(p.cx[n].ch)

\* the processor of context n can take a step: its select has an entry or a
\* closed channel, its cc.mu.Lock() is granted, it is past the Lock, or the
\* update it waits for in QueueUpdateDraw has been run
ProcCan(p, n) ==
    \/ p.cx[n].proc = "select" /\ (p.cx[n].ch # << >> \/ p.cx[n].closed)
    \/ p.cx[n].proc = "lock" /\ CanLock(p.mus[MuOf(n)])
    \/ p.cx[n].proc \in {"locked", "appendlog"}
    \/ p.cx[n].proc = "queued" /\ PairUpdateRun(p, n)

\* the context whose GetLogBuffer the caller is in (holding its read lock), or 0
CallerIn(p) == IF p.caller.pc = "copy" THEN Head(p.caller.todo) ELSE 0

\* StreamLogs of context n: scanner.Scan() returns a non-empty line
PairScanLine ==
    /\ Running
    /\ \E n \in Pair :
         /\ pipes.cx[n].reader = "scan"
         /\ pipes.cx[n].left > 0
         /\ pipes' = WithCx(n, [pipes.cx[n] EXCEPT !.left = @ - 1, !.reader = "send",
                                                   !.lineNo = @ + 1])
    /\ UNCHANGED <<pairRest, ccmLock>>

\* StreamLogs of context n: the stream ends, the goroutine returns and its
\* deferred close(logCh) runs
PairScanEnd ==
    /\ Running
    /\ \E n \in Pair :
         /\ pipes.cx[n].reader = "scan"
         /\ pipes' = WithCx(n, [pipes.cx[n] EXCEPT !.reader = "done", !.closed = TRUE])
    /\ UNCHANGED <<pairRest, ccmLock>>

\* StreamLogs of context n: case logCh <- entry
PairSend ==
    /\ Running
    /\ \E n \in Pair :
         /\ pipes.cx[n].reader = "send"
         /\ CanSend(pipes.cx[n].ch)
         /\ pipes' = WithCx(n, [pipes.cx[n] EXCEPT !.ch = Append(@, pipes.cx[n].lineNo),
                                                   !.reader = "scan"])
    /\ UNCHANGED <<pairRest, ccmLock>>

\* processLogs of context n: case entry, ok := <-cc.LogChannel
PairSelect ==
    /\ Running
    /\ \E n \in Pair :
         /\ pipes.cx[n].proc = "select"
         /\ \/ /\ pipes.cx[n].ch # << >>
               /\ pipes' = WithCx(n, [pipes.cx[n] EXCEPT !.ch = RecvRest(@),
                                                         !.entry = RecvEntry(pipes.cx[n].ch),
                                                         !.proc = "lock"])
            \/ /\ pipes.cx[n].ch = << >>
               /\ pipes.cx[n].closed
               /\ pipes' = WithCx(n, [pipes.cx[n] EXCEPT !.proc = "done"])
    /\ UNCHANGED <<pairRest, ccmLock>>

\* processLogs of context n: cc.mu.Lock()
PairLock ==
    /\ Running
    /\ \E n \in Pair :
         /\ pipes.cx[n].proc = "lock"
         /\ CanLock(pipes.mus[MuOf(n)])
         /\ pipes' = [pipes EXCEPT !.cx[n].proc = "locked", !.mus[MuOf(n)].w = TRUE]
    /\ UNCHANGED <<pairRest, ccmLock>>

\* processLogs of context n: the append, the eviction and cc.mu.Unlock()
PairAppend ==
    /\ Running
    /\ \E n \in Pair :
         /\ pipes.cx[n].proc = "locked"
         /\ pipes' = [pipes EXCEPT
                        !.cx[n].proc = "appendlog",
                        !.cx[n].buf = LET b == Append(@, pipes.cx[n].entry)
                                      IN  IF Len(b) > BufCap THEN Tail(b) ELSE b,
                        !.mus[MuOf(n)].w = FALSE]
    /\ UNCHANGED <<pairRest, ccmLock>>

\* processLogs of context n: cc.AppendLog(logLine), up to the hand-over of the
\* update to the queue of the application
PairAppendLog ==
    /\ Running
    /\ \E n \in Pair :
         /\ pipes.cx[n].proc = "appendlog"
         /\ pipes' = [pipes EXCEPT !.cx[n].proc = "queued", !.updates = Append(@, n)]
    /\ UNCHANGED <<pairRest, ccmLock>>

\* the event loop runs the oldest update of the queue: the line goes into the
\* view of its context
PairDraw ==
    /\ Running
    /\ pipes.updates # << >>
    /\ pipes' = [pipes EXCEPT !.cx[Head(pipes.updates)].shown = @ + 1,
                              !.updates = Tail(@)]
    /\ UNCHANGED <<pairRest, ccmLock>>

\* processLogs of context n: QueueUpdateDraw returns once the update has been
\* run, and the loop is back at its select
PairAppendLogReturns ==
    /\ Running
    /\ \E n \in Pair :
         /\ pipes.cx[n].proc = "queued"
         /\ PairUpdateRun(pipes, n)
         /\ pipes' = WithCx(n, [pipes.cx[n] EXCEPT !.proc = "select"])
    /\ UNCHANGED <<pairRest, ccmLock>>

\* the export (or a search): a.contextManager.GetAllContexts(), ccm.mu.RLock()
PairListLock ==
    /\ Running
    /\ pipes.caller.pc = "idle"
    /\ ccmLock.mu = "none"
    /\ ccmLock' = [mu |-> "GetAllContexts", todo |-> << >>]
    /\ pipes' = [pipes EXCEPT !.caller.pc = "listing"]
    /\ UNCHANGED pairRest

\* GetAllContexts returns the contexts in order
PairListed ==
    /\ Running
    /\ pipes.caller.pc = "listing"
    /\ ccmLock' = ListedUnlocks(ccmLock)
    /\ pipes' = [pipes EXCEPT !.caller = [pc |-> "rlock", todo |-> <<1, 2>>]]
    /\ UNCHANGED pairRest

\* the caller's loop over the contexts: context.GetLogBuffer(), cc.mu.RLock()
PairRLock ==
    /\ Running
    /\ pipes.caller.pc = "rlock"
    /\ LET n == Head(pipes.caller.todo)
       IN  /\ CanRLock(pipes.mus[MuOf(n)])
           /\ pipes' = [pipes EXCEPT !.caller.pc = "copy",
                                     !.mus[MuOf(n)].r = @ \cup {"caller"}]
    /\ UNCHANGED <<pairRest, ccmLock>>

\* GetLogBuffer: make, copy and the return through the deferred RUnlock; the
\* loop goes on to the next context, or ends
PairCopy ==
    /\ Running
    /\ pipes.caller.pc = "copy"
    /\ LET n    == Head(pipes.caller.todo)
           rest == Tail(pipes.caller.todo)
       IN  pipes' = [pipes EXCEPT
                       !.caller = [pc |-> IF rest = << >> THEN "idle" ELSE "rlock",
                                   todo |-> rest],
                       !.mus[MuOf(n)].r = @ \ {"caller"}]
    /\ UNCHANGED <<pairRest, ccmLock>>

\* a context of the pair as Initialize leaves it, with the entries 1..k
\* already in its channel and a stream of so many lines more
PairContext(k, lines) ==
    [left |-> lines, lineNo |-> k, reader |-> "scan", ch |-> [i \in 1..k |-> i],
     closed |-> FALSE, proc |-> "select", entry |-> 0, buf |-> << >>, shown |-> 0]

\* the manager holds two contexts; the reader of the first has filled the
\* channel before its processor ran, the second has sent nothing
InitPair ==
    /\ heap = NewHeap
    /\ LogBuffer = NewLogBuffer
    /\ LogChannel = << >>
    /\ chClosed = FALSE
    /\ cancelled = FALSE
    /\ streamStarted = FALSE
    /\ readerPc = "idle"
    /\ line = NoLine
    /\ procPc = "idle"
    /\ entry = ZeroEntry
    /\ cleanupPc = "idle"
    /\ cleanups = 0
    /\ closes = << >>
    /\ panicked = "none"
    /\ ended = FALSE
    /\ lineNo = 0
    /\ sink = << >>
    /\ sent = << >>
    /\ appended = << >>
    /\ snaps = NoSnaps
    /\ snapGhost = [c \in Callers |-> << >>]
    /\ budget = 0
    /\ LogView = 0
    /\ started = [StreamLogs |-> 0, processLogs |-> 0]
    /\ inits = [calls |-> 0, err |-> FALSE]
    /\ simple = [pc |-> "idle", printed |-> << >>]
    /\ mu = NoLock
    /\ ui = NewView
    /\ ccmLock = NoCcmLock
    /\ selecting = NoSelecting
    /\ pipes = [cx     |-> <<PairContext(PairPrefill, PairLines), PairContext(0, PairOtherLines)>>,
                mus    |-> <<NoLock, NoLock>>,
                caller |-> [pc |-> "idle", todo |-> << >>],
                updates |-> << >>]
    /\ loop = NewLoop
    /\ NoRest
    /\ ctxs = << >>
    /\ contexts = EmptyMap
    /\ orderedIDs = << >>
    /\ colorIndex = 0
    /\ mlast = [op |-> "none"]

NextPair ==
    \/ PairScanLine
    \/ PairScanEnd
    \/ PairSend
    \/ PairSelect
    \/ PairLock
    \/ PairAppend
    \/ PairAppendLog
    \/ PairDraw
    \/ PairAppendLogReturns
    \/ PairListLock
    \/ PairListed
    \/ PairRLock
    \/ PairCopy

SpecPair == InitPair /\ [][NextPair]_vars

(* ---------------------------------------------------------------------- *)
(* Properties                                                             *)
(* ---------------------------------------------------------------------- *)

Max(a, b) == IF a >= b THEN a ELSE b

\* the last n elements of s (all of s when it has fewer)
LastN(s, n) == SubSeq(s, Max(1, Len(s) - n + 1), Len(s))

\* what a call of GetLogBuffer returns in the current state
GetLogBufferResult ==
    LET r == GetLogBufferCopy(heap, LogBuffer, snaps)
    IN  SliceElems(r.heap, r.slice)

\* the entries taken out of the channel so far: those sent and no longer queued
Consumed == SubSeq(sent, 1, Len(sent) - Len(LogChannel))

\* the lines AppendLog got from processLogs (all but the error line)
SinkEntries == SelectSeq(sink, LAMBDA x : x # ErrLine)

IsPrefix(s, t) == Len(s) <= Len(t) /\ s = SubSeq(t, 1, Len(s))

Increasing(s) ==
    LET t == Tail(s)
    IN  s # << >> => \A i \in DOMAIN t : s[i] < t[i]

\* C1: whatever the interleaving of processLogs with GetLogBuffer calls, the
\* buffer a call of GetLogBuffer returns, and every slice a call has returned,
\* holds at most 50 entries.
C1_BufferBound ==
    /\ Len(GetLogBufferResult) <= BufCap
    /\ \A c \in Callers : snaps[c].len <= BufCap

\* a caller holds a full slice that GetLogBuffer returned after an eviction
C1_Witness ==
    /\ Len(appended) > BufCap
    /\ \E c \in Callers :
         /\ snaps[c].len = BufCap
         /\ snapGhost[c][BufCap] = appended[Len(appended)]

\* C2: once the processor has handled the N entries it took from the channel,
\* GetLogBuffer returns the last min(N, 50) of them, oldest first: the entries
\* evicted are the N - 50 oldest.
C2_LastFifty ==
    procPc # "append" => GetLogBufferResult = LastN(Consumed, BufCap)

\* the processor has handled more than 50 entries, so entries have been evicted
C2_Witness ==
    /\ procPc = "select"
    /\ Len(Consumed) >= BufCap + 2
    /\ Len(GetLogBufferResult) = BufCap

\* the cells of the heap a slice denotes: a write s[i] = v goes to one of them
Cells(s) == {<<s.arr, s.off + i>> : i \in 1..s.len}

\* C3: a slice GetLogBuffer returned still holds what it held on return,
\* whatever the processor appended or evicted since; it shares no cell with the
\* internal buffer or with another returned slice, so that a write through it
\* changes neither; and the internal buffer holds the last entries appended.
C3_NoAliasing ==
    /\ \A c \in Callers :
         snaps[c] # NoSlice =>
           /\ SliceElems(heap, snaps[c]) = snapGhost[c]
           /\ Cells(snaps[c]) \cap Cells(LogBuffer) = {}
           /\ \A d \in Callers \ {c} : Cells(snaps[c]) \cap Cells(snaps[d]) = {}
    /\ SliceElems(heap, LogBuffer) = LastN(appended, BufCap)

\* both callers hold a slice, one of them got before the processor's latest
\* append, an append that evicted: the slices differ from each other and one
\* from the internal buffer
C3_Witness ==
    /\ Len(appended) > BufCap
    /\ procPc = "select"
    /\ \A c \in Callers : snaps[c].len = BufCap
    /\ \E c, d \in Callers :
         /\ snapGhost[c][BufCap] < appended[Len(appended)]
         /\ snapGhost[d][BufCap] = appended[Len(appended)]

\* C4: the entries are appended to the buffer and handed to AppendLog in the
\* order the reader sent them, which is the order of the lines in the stream;
\* no two entries are ever reordered.
C4_Order ==
    /\ Increasing(sent)
    /\ IsPrefix(appended, sent)
    /\ IsPrefix(SinkEntries, appended)
    /\ Increasing(GetLogBufferResult)

\* three entries and more went through the channel to the buffer and the view
C4_Witness ==
    /\ Len(appended) >= 3
    /\ Len(SinkEntries) >= 3
    /\ Len(GetLogBufferResult) >= 3

\* a task has terminated when its goroutine returned, or the process died
ReaderTerminated == readerPc \in {"done", "failed"} \/ panicked # "none"

ProcTerminated == procPc = "done" \/ panicked # "none"

\* C5: after the cancellation of a context has fired, its stream reader and its
\* buffer processor both terminate eventually, whatever the stream does.
C5_CancelTerminates == cancelled ~> (ReaderTerminated /\ ProcTerminated)

\* C6: close is executed at most once on a context's log channel, whether by
\* the reader on its exit or by Cleanup.
C6_CloseAtMostOnce ==
    /\ Len(closes) <= 1
    /\ ~(\E i, j \in 1..Len(closes) : closes[i] = "reader" /\ closes[j] = "cleanup")

\* C7: a second call of Cleanup does not panic and does not close the channel
\* again: Cleanup's close statement runs at most once on a context.
C7_SecondCleanupSafe == Len(SelectSeq(closes, LAMBDA c : c = "cleanup")) <= 1

\* the state of the reader's latest text line: already sent, or still in hand
InHand == IF readerPc \in {"check", "send"} /\ line.kind = "text" THEN 1 ELSE 0

\* C8: the channel never holds more than 100 entries; a reader whose send
\* finds it full stays in the send until a slot is free or the context is
\* cancelled; and while no cancellation has fired every non-empty parsed
\* line has been sent, in order, nothing skipped.
C8_Backpressure ==
    /\ [](Len(LogChannel) <= ChanCap)
    /\ [](~cancelled => (sent = Prefix(Len(sent)) /\ Len(sent) = lineNo - InHand))
    /\ [][(readerPc = "send" /\ Len(LogChannel) >= ChanCap /\ readerPc' # "send")
            => (cancelled /\ readerPc' = "exit" /\ sent' = sent)]_vars

\* the reader is blocked in its send on a full channel, nothing cancelled
C8_Witness ==
    /\ readerPc = "send"
    /\ Len(LogChannel) = ChanCap
    /\ ~cancelled
    /\ Len(sent) = ChanCap

Distinct(cs) == \A i, j \in 1..Len(cs) : i # j => cs[i].ID # cs[j].ID

\* C9: after InitializeContexts on an empty manager with n containers of
\* distinct IDs, Count() = n, GetContextByIndex(i) is the context of the i-th
\* container, and GetAllContexts() has Count() contexts in that same order.
C9_IndexConsistency ==
    (mlast.op = "InitializeContexts" /\ mlast.wasEmpty /\ Distinct(mlast.containers))
    => /\ Count = Len(mlast.containers)
       /\ \A i \in 0..(Len(mlast.containers) - 1) :
            /\ GetContextByIndex(i) # 0
            /\ ctxs[GetContextByIndex(i)].Container.ID = mlast.containers[i + 1].ID
       /\ Len(GetAllContexts) = Count
       /\ \A i \in 1..Len(GetAllContexts) :
            ctxs[GetAllContexts[i]].Container.ID = mlast.containers[i].ID

\* an empty manager has been given three containers of distinct IDs
C9_Witness ==
    /\ mlast.op = "InitializeContexts"
    /\ mlast.wasEmpty
    /\ Distinct(mlast.containers)
    /\ Len(mlast.containers) = 3
    /\ Count = 3

\* C10: in every reachable state of the manager the set of the IDs in the
\* ordered list is the set of the keys of the map.
C10_SameKeys == {orderedIDs[i] : i \in 1..Len(orderedIDs)} = DOMAIN contexts

\* the manager has been cleaned up after holding contexts, then filled again
C10_Witness ==
    /\ mlast.op = "InitializeContexts"
    /\ Len(ctxs) > Len(orderedIDs)
    /\ Len(orderedIDs) >= 2
    /\ \E n \in 1..Len(ctxs) : ctxs[n].cleanupCalls = 1

\* C11: a call SetSelected(index, b) whose index is below 0 or at least
\* Count() when the call looks the context up does not panic and changes the
\* selection of no context, and GetContextByIndex returns nil for that index.
C11_OutOfRangeNoOp ==
    /\ [][(selecting.pc = "idle" /\ selecting'.pc = "looked"
           /\ (selecting'.index < 0 \/ selecting'.index >= Count))
          => /\ selecting'.context = 0
             /\ GetContextByIndex(selecting'.index) = 0
             /\ ctxs' = ctxs
             /\ panicked' = "none"]_vars
    /\ [][(selecting.pc = "looked" /\ selecting'.pc = "idle" /\ selecting.context = 0)
          => /\ ctxs' = ctxs
             /\ panicked' = "none"]_vars

\* the last context is selected and SetSelected(Count(), false) has returned
C11_Witness ==
    /\ mlast.op = "SetSelected"
    /\ Count >= 2
    /\ mlast.index = Count
    /\ ~mlast.selected
    /\ GetContextByIndex(Count - 1) # 0
    /\ ctxs[GetContextByIndex(Count - 1)].IsSelected

\* C12: after Cleanup, and after its alias StopAll, Cleanup has been invoked
\* exactly once on every context that was registered, the map and the ordered
\* list are empty, Count() = 0, GetAllContexts() is empty and
\* GetContextByIndex returns nil for every index.
C12_CleanupEmpties ==
    mlast.op \in {"Cleanup", "StopAll"}
    => /\ \A n \in mlast.registered : ctxs[n].cleanupCalls = 1
       /\ contexts = EmptyMap
       /\ orderedIDs = << >>
       /\ Count = 0
       /\ GetAllContexts = << >>
       /\ \A index \in -1..MaxContexts : GetContextByIndex(index) = 0

\* C13: when StreamLogs fails for one container, the error line is queued for
\* and drawn in the view of that container's context and in no other view,
\* InitializeContexts has returned no error, the failed context has sent and
\* appended nothing, the steps of the failure change no other context and
\* leave what the reader and the processor of every other context can do as
\* it was, and every other context can go on: its reader sends while its
\* stream has lines, its processor receives what the channel holds, and the
\* event loop runs whatever update is at the head of its queue.
C13_FailureIsLocal ==
    /\ [](mlast.op = "InitializeContexts" => ~mlast.err)
    /\ [](\A n \in 1..Len(ctxs) :
            /\ ctxs[n].errors = (IF ctxs[n].reader = "failed" THEN 1 ELSE 0)
            /\ ctxs[n].reader \in {"failing", "failed"}
                  => (ctxs[n].sent = 0 /\ ctxs[n].delivered = 0)
            /\ ContextCanSend(ctxs, n) => ENABLED ContextSend(n)
            /\ ContextCanProcess(ctxs, n) => ENABLED ContextProcess(n))
    /\ [](\A i \in 1..Len(loop.queue) :
            loop.queue[i].what = "error"
            => /\ loop.queue[i].view = loop.queue[i].cx
               /\ ctxs[loop.queue[i].cx].reader = "failing")
    /\ []((app.pc = "tui" /\ loop.queue # << >>) => ENABLED ContextDraw)
    /\ [][\A n \in 1..Len(ctxs) :
            (ctxs'[n].reader # ctxs[n].reader /\ ctxs'[n].reader \in {"failing", "failed"})
            => \A m \in 1..Len(ctxs) :
                 m # n => /\ ctxs'[m] = ctxs[m]
                          /\ ContextCanSend(ctxs', m) <=> ContextCanSend(ctxs, m)
                          /\ ContextCanProcess(ctxs', m) <=> ContextCanProcess(ctxs, m)]_vars

\* of three contexts in the TUI the second has failed to open its stream and
\* its error line is drawn, the first has sent an entry, appended it and had
\* it drawn, and the processor of the third has appended one and waits for
\* the event loop
C13_Witness ==
    /\ app.pc = "tui"
    /\ Len(ctxs) = 3
    /\ Count = 3
    /\ ctxs[2].reader = "failed" /\ ctxs[2].errors = 1
    /\ ctxs[1].reader = "running" /\ ctxs[1].delivered = 1
    /\ ctxs[1].shown = 1 /\ ctxs[1].proc = "select"
    /\ ctxs[3].reader = "running" /\ ctxs[3].delivered = 1
    /\ ctxs[3].proc = "queued" /\ ctxs[3].shown = 0

\* the message a text without a frame header is to give: the text trimmed,
\* less a leading timestamp and the space that ends it
TextMessage(t) ==
    LET s == TrimSpace(t)
        i == IndexByte(s, 32)
    IN  IF i > 0 /\ TryFormats(TimestampFormats, SubSeq(s, 1, i - 1)).ok
        THEN SubSeq(s, i + 1, Len(s))
        ELSE s

\* C14: parseLogEntry takes the first 8 bytes off the line exactly when the
\* line has 8 bytes or more and its first byte is 1 or 2, and reads the rest
\* as text; any other line is read from its first byte and its message is the
\* line's content, trimmed ("hello world" gives "hello world").
C14_FrameStrip ==
    parsed.called =>
        LET l      == LineOf(input)
            h      == Headers[input.hdr]
            framed == Len(l) >= 8 /\ l[1] \in {1, 2}
            m      == parsed.entry.Message
        IN  /\ m = TextMessage(IF framed THEN SubSeq(l, 9, Len(l)) ELSE l)
            /\ h.kind \in {"none", "frame"} => m = Texts[input.text].msg
            /\ (h.kind = "zero" \/ Len(l) < 8) => m = TrimSpace(l)

\* "hello world" behind the frame header of stdout or stderr has been parsed
C14_Witness ==
    /\ parsed.called
    /\ Headers[input.hdr].kind = "frame"
    /\ Texts[input.text].bytes = <<104, 101, 108, 108, 111, 32, 119, 111, 114, 108, 100>>
    /\ parsed.entry.Message = <<104, 101, 108, 108, 111, 32, 119, 111, 114, 108, 100>>

\* the formats that accept a token, by their place in the order of the tries
AcceptingFormats(tok) ==
    {k \in 1..Len(TimestampFormats) : Accepts(TimestampFormats[k], tok)}

\* C15: after frame stripping and trimming, if the line has a space and the
\* token before its first space parses under one of the formats, the entry's
\* timestamp is the time under the first format that accepts and the message
\* is what follows that space; otherwise the message is the whole stripped
\* line and the timestamp is the reading of the clock, never the zero time.
C15_TimestampSplit ==
    (parsed.called /\ TrimSpace(StripHeader(LineOf(input))) # << >>) =>
        LET s   == TrimSpace(StripHeader(LineOf(input)))
            i   == IndexByte(s, 32)
            tok == SubSeq(s, 1, i - 1)
            e   == parsed.entry
            t   == Texts[input.text]
        IN  /\ IF i > 0 /\ AcceptingFormats(tok) # {}
               THEN LET k == CHOOSE k \in AcceptingFormats(tok) :
                                 \A j \in AcceptingFormats(tok) : k <= j
                    IN  /\ e.Timestamp = TimeParse(TimestampFormats[k], tok).time
                        /\ e.Timestamp.kind = "date"
                        /\ e.Message = SubSeq(s, i + 1, Len(s))
               ELSE /\ e.Message = s
                    /\ e.Timestamp = NowTime(parsed.now)
                    /\ e.Timestamp # ZeroTime
            /\ Headers[input.hdr].kind \in {"none", "frame"} =>
                  /\ e.Message = t.msg
                  /\ e.Timestamp = IF t.stamp = NowStamp THEN NowTime(parsed.now) ELSE t.stamp

\* "2024-01-15T10:30:00.123456789Z started" has been parsed
C15_Witness ==
    /\ parsed.called
    /\ Headers[input.hdr].kind = "none"
    /\ Texts[input.text].msg = <<115, 116, 97, 114, 116, 101, 100>>
    /\ parsed.entry.Message = <<115, 116, 97, 114, 116, 101, 100>>
    /\ parsed.entry.Timestamp = Date(2024, 1, 15, 10, 30, 0, 123456789, 0)

\* the lines of white space only: ASCII spaces and tabs, or the ideographic
\* space U+3000
BlankLines ==
    {LineOf(in) : in \in {x \in Inputs : x.hdr = 1 /\ Texts[x.text].msg = << >>}}

BlankLinesParseEmpty ==
    \A l \in BlankLines : \A now \in 1..MaxNow : parseLogEntry("c", l, now).Message = << >>

\* C16: parseLogEntry returns an entry with the empty message for the empty
\* line and for every line of whitespace only, and no entry with an empty
\* message is ever sent on the log channel, held by the processor or
\* appended to the log buffer.
C16_NoEmptyEntries ==
    /\ BlankLinesParseEmpty
    /\ \A i \in 1..Len(sent) : sent[i] # ZeroEntry
    /\ \A i \in 1..Len(LogChannel) : LogChannel[i] # ZeroEntry
    /\ \A i \in 1..Len(appended) : appended[i] # ZeroEntry
    /\ LET buffer == SliceElems(heap, LogBuffer)
       IN  \A i \in 1..Len(buffer) : buffer[i] # ZeroEntry
    /\ procPc \in {"append", "appendlog", "queued"} => entry # ZeroEntry

\* the reader holds a line of whitespace only, read after entries were sent
\* and appended, with the channel not empty
C16_Witness ==
    /\ readerPc = "check"
    /\ line.kind = "space"
    /\ KindMessage["space"] = << >>
    /\ Len(appended) >= 1
    /\ Len(LogChannel) >= 1

\* C17: the message parseLogEntry returns is empty only when the original
\* line is empty after trimming: a message left empty by the frame stripping
\* and the timestamp extraction is replaced by the original line, trimmed.
C17_EmptyOnlyIfBlank ==
    parsed.called =>
        (parsed.entry.Message = << >> => TrimSpace(LineOf(input)) = << >>)

\* C18: on every quit path after the contexts were initialized (q or Ctrl+C
\* in TUI mode, a signal or a cancellation in simple mode) the manager's
\* Cleanup is invoked: Run does not return from a quit without it.
C18_QuitInvokesCleanup == (app.pc = "exited" /\ app.quit # "none") => app.cleanups >= 1

\* the entries of a sequence that lie in the window from Since to Until
InWindow(es, o) ==
    SelectSeq(es, LAMBDA e : (o.Since = 0 \/ e.Timestamp >= o.Since)
                             /\ (o.Until = 0 \/ e.Timestamp <= o.Until))

\* C19: a call of GetContainerLogs with Follow = false and Tail = N > 0 that
\* has returned without error returns at most N entries, and they are the N
\* most recent of the entries received from the stream that pass the Since
\* and Until filters, in the order of the stream.
C19_TailMostRecent ==
    (sdk.pc = "returned" /\ ~sdk.err /\ ~sdk.options.Follow /\ sdk.options.Tail > 0)
    => /\ Len(sdk.logs) <= sdk.options.Tail
       /\ sdk.logs = LastN(InWindow(sdk.atExit, sdk.options), sdk.options.Tail)

\* C20: no task ever performs a send on a log channel that has been closed:
\* however the reader's send interleaves with the cancellation and with
\* Cleanup, the send is never executed on a closed channel.
C20_NoSendOnClosed == panicked # "send on closed channel"

\* the closes of the channel executed by the reader goroutine
ReaderCloses == Len(SelectSeq(closes, LAMBDA c : c = "reader"))

\* C22: StreamLogs returns an error only when the stream could not be opened,
\* and then no reader task runs, nothing was or is ever sent on the channel,
\* and StreamLogs has not closed the channel; nothing is sent or closed before
\* StreamLogs returns; when it returns nil the sends and the one close of
\* StreamLogs are those of the reader task.
C22_SetupFailure ==
    /\ (\E i \in 1..Len(sink) : sink[i] = ErrLine) <=> readerPc = "failed"
    /\ readerPc \in {"idle", "open", "failed"}
         => /\ sent = << >>
            /\ LogChannel = << >>
            /\ line = NoLine
            /\ lineNo = 0
            /\ ReaderCloses = 0
    /\ ReaderCloses <= 1
    /\ ReaderCloses = 1 => readerPc \in {"exit", "done"}

\* StreamLogs has failed: the error line is in the view, the processor waits
\* on the channel, which is open and empty
C22_Witness ==
    /\ readerPc = "failed"
    /\ sink = <<ErrLine>>
    /\ procPc = "select"
    /\ ~chClosed
    /\ ~cancelled

\* C23: the only task that ever receives from a context's log channel is its
\* buffer processor, in TUI mode and in simple mode alike: no other task has
\* taken an entry, and every entry taken from the channel is appended to the
\* log buffer once the processor has handled it.
C23_SingleReceiver ==
    /\ simple.printed = << >>
    /\ Len(appended) + (IF procPc = "append" THEN 1 ELSE 0) = Len(Consumed)
    /\ IsPrefix(appended, Consumed)

\* C24: the processing loop exits when the log channel closes: the processor
\* does not terminate while the channel is open or while entries sent are
\* still queued, and when it has terminated it has appended every entry that
\* was sent before the close, in order.
C24_ExitsOnClose ==
    procPc = "done" => (chClosed /\ LogChannel = << >> /\ appended = sent)

\* C25: the processor's write of the log buffer excludes every read of it:
\* the writer and a reader never hold the lock together, the buffer has more
\* than 50 entries only inside the writer's critical section, and the slice a
\* call of GetLogBuffer returns is, at the instant of the copy, the run of the
\* processed entries that ends at the one appended last, at most 50 long,
\* never the buffer between an append and its eviction.
C25_ConsistentSnapshot ==
    /\ [](~(mu.w /\ mu.r # {}))
    /\ [](mu.w <=> procPc \in {"locked", "evict", "unlock"})
    /\ [](LogBuffer.len > BufCap => mu.w)
    /\ [][\A c \in Callers :
            (snaps[c] = NoSlice /\ snaps'[c] # NoSlice)
            => /\ ~mu.w
               /\ snaps'[c].len <= BufCap
               /\ SliceElems(heap', snaps'[c]) = LastN(appended, BufCap)]_vars

\* a caller holds the read lock while the processor waits for the lock with
\* the next entry in hand, and the other caller holds a slice copied after
\* an eviction
C25_Witness ==
    /\ procPc = "append"
    /\ mu.r # {}
    /\ Len(appended) = PrefillCount + 1
    /\ \E c \in Callers :
         /\ c \notin mu.r
         /\ snaps[c].len = BufCap
         /\ snapGhost[c][BufCap] = PrefillCount + 1

\* C26: no task holds a context's buffer lock or the manager's lock while it
\* performs a channel operation or a submission to the view: the processor
\* receives and submits outside its critical section, and the step in which
\* a call of the manager closes a context's channel is taken with ccm.mu free.
C26_NoLockAcrossChannelOps ==
    /\ [][(Len(LogChannel') < Len(LogChannel) \/ sink' # sink) => ~mu.w]_vars
    /\ [][\A n \in 1..Len(ctxs) :
            (ctxs'[n].cleanupCalls # ctxs[n].cleanupCalls /\ ctxs'[n].chClosed)
            => ccmLock.mu = "none"]_vars

\* C28: after a refresh of the container list (StopAll, then InitializeContexts
\* on a fresh snapshot of containers of distinct IDs) the manager holds one
\* context per container of the snapshot, in the snapshot's order, each
\* created by this refresh; every context held before has been cancelled;
\* and no task of a previous context has touched a new context: a new
\* context is not cancelled, and its channel is closed by its own reader only.
C28_RefreshRebuilds ==
    (mlast.op = "refreshContainers" /\ Distinct(mlast.containers))
    => /\ Count = Len(mlast.containers)
       /\ Len(GetAllContexts) = Count
       /\ \A i \in 0..(Len(mlast.containers) - 1) :
            LET n == GetContextByIndex(i)
            IN  /\ n > mlast.created
                /\ ctxs[n].Container.ID = mlast.containers[i + 1].ID
                /\ ~ctxs[n].cancelled
                /\ ctxs[n].chClosed => ctxs[n].reader = "done"
       /\ \A n \in mlast.previous : ctxs[n].cancelled

\* C29: the message of every entry parseLogEntry returns is trimmed: it has
\* no leading and no trailing whitespace, whatever the line, with or without
\* frame header, with or without timestamp.
C29_MessageTrimmed ==
    parsed.called => parsed.entry.Message = TrimSpace(parsed.entry.Message)

\* C30: the view of a context is never written by a background task: every
\* write the view has was made on the goroutine of the event loop with no
\* other task inside a method of the view, no task but that goroutine is ever
\* inside one, every line in the view was given to AppendLog by the task it
\* comes from and run as a queued update, and the export writes nothing; so
\* SetSelected, between its flag and its border colour, never has a line of
\* the processor written beside it.
C30_ViewOnEventLoop ==
    /\ \A w \in ui.writes : w.by = EventLoop /\ w.beside = {}
    /\ ui.inside \subseteq {EventLoop}
    /\ \A w \in ui.writes :
         w.what = "text" => \E i \in 1..ui.drawn : SubmitterOf(sink[i]) = w.from
    /\ (loop.pc = "key" /\ LogView # 0) => ui.inside = {EventLoop}

\* SetSelected is between its flag and its border colour on the event loop
\* while the processor waits in AppendLog for its second line to be run; the
\* first line is in the view, the border has been set by an earlier key, and
\* the export holds a copy of the buffer
C30_Witness ==
    /\ loop.pc = "key"
    /\ ui.inside = {EventLoop}
    /\ procPc = "queued"
    /\ ui.drawn < Len(sink)
    /\ \E w \in ui.writes : w.what = "text" /\ w.from = "processLogs"
    /\ \E w \in ui.writes : w.what = "border" /\ w.from = "focusContainer"
    /\ snaps["exportLogsForLLM"] # NoSlice

\* C31: the pipelines of two contexts are independent: a step that is not of
\* context n's reader or processor, not the event loop running n's queued
\* update and not a GetLogBuffer on n (a send into the other channel filling
\* it, the other reader waiting or ending, a copy of the other buffer under
\* its read lock, an update of the other context queued or run) leaves what
\* the reader and the processor of n can do as it was; and no task holds two locks: the manager's
\* lock is held only inside GetAllContexts, a buffer lock only by the
\* processor of its context or by the caller copying that one buffer.
C31_Independent ==
    /\ [](ccmLock.mu # "none" <=> pipes.caller.pc = "listing")
    /\ [](\A k \in Pair :
            /\ pipes.mus[k].r # {} <=> (CallerIn(pipes) # 0 /\ MuOf(CallerIn(pipes)) = k)
            /\ pipes.mus[k].w <=> (\E n \in Pair : MuOf(n) = k /\ pipes.cx[n].proc = "locked")
            /\ ~(pipes.mus[k].w /\ pipes.mus[k].r # {}))
    /\ [][\A n \in Pair :
            (pipes'.cx[n] = pipes.cx[n] /\ CallerIn(pipes) # n /\ CallerIn(pipes') # n)
            => /\ ReaderCan(pipes', n) <=> ReaderCan(pipes, n)
               /\ ProcCan(pipes', n) <=> ProcCan(pipes, n)]_vars

\* the channel of the first context is full and its reader waits in the send,
\* the caller is inside GetLogBuffer of the first context, and the processor
\* of the second, whose stream has ended, holds its own lock
C31_Witness ==
    /\ Len(pipes.cx[1].ch) = ChanCap
    /\ pipes.cx[1].reader = "send"
    /\ ~ReaderCan(pipes, 1)
    /\ CallerIn(pipes) = 1
    /\ pipes.cx[2].proc = "locked"
    /\ pipes.cx[2].reader = "done"

\* C34: with QueueUpdateDraw returning only after the event loop has run the
\* update, the event loop is never itself inside QueueUpdateDraw: no key
\* handler and no queued update calls it, and every key taken from the event
\* queue has been handled when the loop is back at its select.
C34_LoopNeverWaits ==
    /\ loop.pc # "blocked"
    /\ \A i \in 1..Len(loop.queue) : loop.queue[i] # "loop"
    /\ loop.handled + Len(loop.keys) = loop.pressed

\* the contexts the manager can reach: those its map holds
Registered == {contexts[id] : id \in DOMAIN contexts}

\* C32: in every reachable state of the manager the ordered list has no
\* duplicate and as many elements as the map has keys, and every context whose
\* goroutines were started and which has not been cleaned up is held by the
\* map, also after two calls of InitializeContexts with no Cleanup between
\* them and after a call with two containers of the same ID.
C32_NoOrphans ==
    /\ \A i, j \in 1..Len(orderedIDs) : i # j => orderedIDs[i] # orderedIDs[j]
    /\ Len(orderedIDs) = Cardinality(DOMAIN contexts)
    /\ \A n \in 1..Len(ctxs) :
         (ctxs[n].streamStarted /\ ctxs[n].cleanupCalls = 0) => n \in Registered

\* C33: once Run has set up the grid, and after any navigateUp, navigateDown,
\* fullscreen toggle and refresh, a manager that holds contexts has its
\* focused index in range and, of its contexts, exactly the one at that index
\* has IsSelected set.
C33_FocusInRange ==
    (app.pc # "start" /\ Count > 0)
    => /\ 0 <= app.selectedContainer
       /\ app.selectedContainer < Count
       /\ \A n \in Registered :
            ctxs[n].IsSelected <=> n = GetContextByIndex(app.selectedContainer)
       /\ \E n \in Registered : ctxs[n].IsSelected

\* C21: over any number of calls of Initialize on one context, StreamLogs is
\* invoked at most once and at most one processLogs task is started, every
\* call returns no error, and a second call is a no-op: it changes nothing of
\* the context, its view included.
C21_InitializeOnce ==
    [][(inits'.calls = inits.calls + 1)
          => /\ started'.StreamLogs <= 1
             /\ started'.processLogs <= 1
             /\ ~inits'.err
             /\ (inits.calls >= 1 => UNCHANGED <<ccVars, LogView, started>>)]_vars

====
